---- MODULE Spec2Model ----
(***************************************************************************)
(* Model of the link protocol engine of conn2m.py (class NaviConnection):  *)
(* the checksummed command/response channel, the chunked receive path      *)
(* (getData / getDataChunk), the record slicing of parseChunks and the     *)
(* chunked send path (makeChunks / waitForAcknowledge / sendData), and of  *)
(* the record codecs (TrackPoint, Track, Poi, RoutePoint, Route).          *)
(*                                                                         *)
(* Byte strings are sequences of integers 0..255.  The serial port is      *)
(* modelled by its input buffer (wire), by its baud rate and by the log of  *)
(* the calls made on it.                                                   *)
(***************************************************************************)
EXTENDS Integers, Sequences, FiniteSets, TLC

VARIABLES
    pc,               \* position of the connection's caller inside the current operation
    baud,             \* self.port baud rate
    log,              \* calls made on self.port during the current operation, in order
    wire,             \* bytes waiting in the port's input buffer
    dataChunks,       \* getData's local list dataChunks
    result,           \* outcome of the current operation: value returned or exception raised
    command,          \* argument of the last sendCommand
    checkChecksum,    \* argument of the last getResponse
    expectedResponse, \* argument of the last getResponse (<<>> stands for None / b"")
    sentLine,         \* the line the device put on the wire for the current command
    noise,            \* the byte of sentLine altered in flight ([pos |-> 0] when intact)
    chunks,           \* argument of parseChunks
    pointLen,         \* argument of parseChunks
    pointLines,       \* list returned by parseChunks
    data,             \* argument of makeChunks / sendData
    chunkNo,          \* sendData: position in dataChunks of the chunk being sent
    points,           \* self.points of the Route or Track at hand
    binData,          \* binary record at hand: Route.binData, Poi.raw, TrackPoint.line
    poi,              \* attributes of the Poi at hand
    minTimeDiff,      \* argument of Track.split
    tz,               \* hours the local time zone is ahead of UTC
    gpxValues,        \* the values Gpx read from the file at hand
    deviceConfig,     \* DeviceConfig.deviceConfig, the general settings snapshot
    recordConfig,     \* DeviceConfig.recordConfig, the recording settings snapshot
    calls             \* the setter calls made on the DeviceConfig so far

vars == <<pc, baud, log, wire, dataChunks, result, command, checkChecksum,
          expectedResponse, sentLine, noise, chunks, pointLen, pointLines, data,
          chunkNo, points, binData, poi, minTimeDiff, tz, gpxValues, deviceConfig,
          recordConfig, calls>>

\* the state of the record codecs, which the connection never touches
codecVars == <<points, binData, poi, minTimeDiff, tz, gpxValues>>

\* the settings snapshots, which only the DeviceConfig methods touch
configVars == <<deviceConfig, recordConfig, calls>>

\* the state of the connection, which the record codecs never touch
connVars == <<baud, log, wire, dataChunks, command, checkChecksum, expectedResponse,
              sentLine, noise, chunks, pointLen, pointLines, data, chunkNo>>

(***************************************************************************)
(* Bounds of the model.                                                    *)
(***************************************************************************)
MaxPayload == 2     \* longest sendCommand payload drawn
MaxBody == 2        \* longest body of a device response line drawn

(***************************************************************************)
(* Bytes with a meaning in the protocol.                                   *)
(***************************************************************************)
DOLLAR == 36
STAR == 42
CR == 13
LF == 10
Byte == 0..255
\* bytes.strip() without argument removes ASCII whitespace: b" \t\n\r\x0b\x0c"
Whitespace == {9, 10, 11, 12, 13, 32}

None == [kind |-> "none", value |-> <<>>]
Returned(v) == [kind |-> "return", value |-> v]
Raised(e) == [kind |-> e, value |-> <<>>]

\* a Python int
PyInt(i) == [type |-> "int", v |-> i]

\* the items of the two settings lines, in the order the device sends them
deviceConfigItems ==
    <<"language", "turnRadius", "lightDuration", "autoOff", "homeTz", "currentTz", "units">>
recordConfigItems ==
    <<"timeInterval", "unknown_1", "distanceInterval", "unknown_2", "speedInterval",
      "unknown_3", "unknown_4">>

\* parseDeviceConfig / parseRecordConfig: item k is int() of field k of the line
parseDeviceConfig(fields) ==
    [item \in {deviceConfigItems[k] : k \in 1..7} |->
        PyInt(fields[CHOOSE k \in 1..7 : deviceConfigItems[k] = item])]
parseRecordConfig(fields) ==
    [item \in {recordConfigItems[k] : k \in 1..7} |->
        PyInt(fields[CHOOSE k \in 1..7 : recordConfigItems[k] = item])]

\* no record decoded or built yet; the settings are those DeviceConfig.__init__
\* fetched from a device answering $POEM103,0,10,10,0,1,1,0 and
\* $POEM101,1,0,5,0,0,0,0,...
InitCodec ==
    /\ points = <<>>
    /\ binData = <<>>
    /\ poi = None
    /\ minTimeDiff = 0
    /\ tz = 0
    /\ gpxValues = <<>>
    /\ deviceConfig = parseDeviceConfig(<<0, 10, 10, 0, 1, 1, 0>>)
    /\ recordConfig = parseRecordConfig(<<1, 0, 5, 0, 0, 0, 0>>)
    /\ calls = <<>>

(***************************************************************************)
(* Python bytes primitives.                                                *)
(***************************************************************************)
startswith(s, p) == Len(p) <= Len(s) /\ SubSeq(s, 1, Len(p)) = p

strip(s) ==
    LET keep == {i \in 1..Len(s) : s[i] \notin Whitespace}
    IN  IF keep = {} THEN <<>>
        ELSE SubSeq(s, CHOOSE i \in keep : \A j \in keep : i <= j,
                       CHOOSE i \in keep : \A j \in keep : j <= i)

upper(s) == [i \in 1..Len(s) |-> IF s[i] \in 97..122 THEN s[i] - 32 ELSE s[i]]

\* a ^ b on non-negative integers
RECURSIVE BitXor(_, _)
BitXor(a, b) ==
    IF a = 0 THEN b
    ELSE IF b = 0 THEN a
    ELSE ((a + b) % 2) + 2 * BitXor(a \div 2, b \div 2)

\* one lowercase hexadecimal digit as an ASCII code
HexChar(d) == IF d < 10 THEN 48 + d ELSE 87 + d

\* "{:x}".format(n)
RECURSIVE FormatHex(_)
FormatHex(n) == IF n < 16 THEN <<HexChar(n)>> ELSE FormatHex(n \div 16) \o <<HexChar(n % 16)>>

\* "{:0>2x}".format(n).encode("ascii")
Format02x(n) == LET h == FormatHex(n) IN IF Len(h) < 2 THEN <<48>> \o h ELSE h

(***************************************************************************)
(* NaviConnection.calcNMEAChecksum                                         *)
(***************************************************************************)
RECURSIVE XorLoop(_, _)
XorLoop(string, checksum) ==
    IF string = <<>> THEN checksum
    ELSE XorLoop(Tail(string), BitXor(checksum, Head(string)))

\* variant: the leading "$" is never stripped
calcNMEAChecksum_KeepDollar(string, stripDollar) ==
    upper(Format02x(XorLoop(string, 0)))

calcNMEAChecksum(string, stripDollar) ==
    LET s == IF stripDollar /\ startswith(string, <<DOLLAR>>) THEN Tail(string) ELSE string
    IN  upper(Format02x(XorLoop(s, 0)))

(***************************************************************************)
(* NaviConnection.checkNMEAChecksum: "ok" when it returns, otherwise the   *)
(* name of the exception raised.  respString[-3] on fewer than three bytes *)
(* raises IndexError.                                                      *)
(***************************************************************************)
\* variant: only the first checksum digit is compared
checkNMEAChecksum_FirstDigit(resp) ==
    LET stripped == strip(resp)
        respString == IF startswith(stripped, <<DOLLAR>>) THEN Tail(stripped) ELSE stripped
        n == Len(respString)
    IN  IF n < 3 THEN "IndexError"
        ELSE IF respString[n - 2] # STAR THEN "BadChecksum"
        ELSE LET message == SubSeq(respString, 1, n - 3)
                 checksum == upper(SubSeq(respString, n - 1, n))
                 expectedChecksum == upper(calcNMEAChecksum(message, FALSE))
             IN  IF checksum[1] # expectedChecksum[1] THEN "BadChecksum" ELSE "ok"

checkNMEAChecksum(resp) ==
    LET stripped == strip(resp)
        respString == IF startswith(stripped, <<DOLLAR>>) THEN Tail(stripped) ELSE stripped
        n == Len(respString)
    IN  IF n < 3 THEN "IndexError"
        ELSE IF respString[n - 2] # STAR THEN "BadChecksum"
        ELSE LET message == SubSeq(respString, 1, n - 3)
                 checksum == upper(SubSeq(respString, n - 1, n))
                 expectedChecksum == upper(calcNMEAChecksum(message, FALSE))
             IN  IF checksum # expectedChecksum THEN "BadChecksum" ELSE "ok"

(***************************************************************************)
(* serial readline(): up to and including the first LF; when the buffer    *)
(* holds no LF the read times out and returns what is there (b"" when the  *)
(* buffer is empty).                                                       *)
(***************************************************************************)
LineEnd(w) ==
    LET lfs == {i \in 1..Len(w) : w[i] = LF}
    IN  IF lfs = {} THEN Len(w) ELSE CHOOSE i \in lfs : \A j \in lfs : i <= j

readline(w) == SubSeq(w, 1, LineEnd(w))
afterReadline(w) == SubSeq(w, LineEnd(w) + 1, Len(w))

(***************************************************************************)
(* NaviConnection.getResponse applied to the line resp                     *)
(***************************************************************************)
\* variant: the prefix is compared only when the checksum is validated
getResponse_PrefixIfChecked(resp, cc, expected) ==
    IF ~cc THEN Returned(resp)
    ELSE IF checkNMEAChecksum(resp) # "ok" THEN Raised(checkNMEAChecksum(resp))
    ELSE IF expected # <<>> /\ ~startswith(resp, expected) THEN Raised("BadResponse")
    ELSE Returned(resp)

getResponse(resp, cc, expected) ==
    LET check == IF cc THEN checkNMEAChecksum(resp) ELSE "ok"
    IN  IF check # "ok" THEN Raised(check)
        ELSE IF expected # <<>> /\ ~startswith(resp, expected) THEN Raised("BadResponse")
        ELSE Returned(resp)

(***************************************************************************)
(* NaviConnection.sendCommand / sendRawCommand: the bytes written          *)
(***************************************************************************)
sendRawCommand(cmd) == [op |-> "write", data |-> cmd]

sendCommand(cmd) ==
    LET byteString == cmd \o <<STAR>> \o calcNMEAChecksum(cmd, TRUE)
    IN  sendRawCommand(byteString \o <<CR, LF>>)

(***************************************************************************)
(* The device side of the text phase.  A well-formed line is               *)
(* $<body>*<HH><eol>, HH the XOR of the body bytes as two uppercase        *)
(* hexadecimal digits.                                                     *)
(***************************************************************************)
HexDigits == <<48, 49, 50, 51, 52, 53, 54, 55, 56, 57, 65, 66, 67, 68, 69, 70>>

RECURSIVE XorAll(_)
XorAll(s) == IF s = <<>> THEN 0 ELSE BitXor(Head(s), XorAll(Tail(s)))

NmeaLine(body, eol) ==
    <<DOLLAR>> \o body \o <<STAR>>
        \o <<HexDigits[(XorAll(body) \div 16) + 1], HexDigits[(XorAll(body) % 16) + 1]>> \o eol

SeqsUpTo(S, n) == UNION {[1..k -> S] : k \in 0..n}

PayloadBytes == {DOLLAR, 74}
Payloads == SeqsUpTo(PayloadBytes, MaxPayload)
BodyBytes == {STAR, 74}
Bodies == SeqsUpTo(BodyBytes, MaxBody)
Eols == {<<>>, <<CR, LF>>}
NoiseBytes == {0, 9, LF, CR, 32, DOLLAR, STAR, 48, 65, 75, 97, 255}
ExpectedPrefixes == {<<>>, <<DOLLAR, 74>>}
NoNoise == [pos |-> 0, byte |-> 0]

\* length of the $<body>*<HH> part of a line the device sent
CoreLen(line) == IF line # <<>> /\ line[Len(line)] = LF THEN Len(line) - 2 ELSE Len(line)

(***************************************************************************)
(* Command/response channel: one sendCommand, the device's answer (which   *)
(* line noise may alter in one byte), one getResponse.                     *)
(***************************************************************************)
InitChannel ==
    /\ pc = "Idle"
    /\ baud = 9600
    /\ log = <<>>
    /\ wire = <<>>
    /\ dataChunks = <<>>
    /\ result = None
    /\ command = <<>>
    /\ checkChecksum = TRUE
    /\ expectedResponse = <<>>
    /\ sentLine = <<>>
    /\ noise = NoNoise
    /\ chunks = <<>>
    /\ pointLen = 1
    /\ pointLines = <<>>
    /\ data = <<>>
    /\ chunkNo = 0
    /\ InitCodec

ChanSendCommand(p) ==
    /\ pc = "Idle"
    /\ pc' = "AwaitResponse"
    /\ command' = p
    /\ log' = <<sendCommand(p)>>
    /\ result' = None
    /\ sentLine' = <<>>
    /\ noise' = NoNoise
    /\ checkChecksum' = TRUE
    /\ expectedResponse' = <<>>
    /\ UNCHANGED <<baud, wire, dataChunks, chunks, pointLen, pointLines>>
    /\ UNCHANGED <<data, chunkNo>>
    /\ UNCHANGED <<codecVars, configVars>>

DeviceRespond(body, eol) ==
    /\ pc = "AwaitResponse"
    /\ wire = <<>>
    /\ sentLine = <<>>
    /\ wire' = NmeaLine(body, eol)
    /\ sentLine' = NmeaLine(body, eol)
    /\ UNCHANGED <<pc, baud, log, dataChunks, result, command, checkChecksum,
                   expectedResponse, noise, chunks, pointLen, pointLines>>
    /\ UNCHANGED <<data, chunkNo>>
    /\ UNCHANGED <<codecVars, configVars>>

LineNoise(i, v) ==
    /\ pc = "AwaitResponse"
    /\ sentLine # <<>>
    /\ wire = sentLine
    /\ noise.pos = 0
    /\ i \in 1..CoreLen(sentLine)
    /\ v # sentLine[i]
    /\ wire' = [wire EXCEPT ![i] = v]
    /\ noise' = [pos |-> i, byte |-> v]
    /\ UNCHANGED <<pc, baud, log, dataChunks, result, command, checkChecksum,
                   expectedResponse, sentLine, chunks, pointLen, pointLines>>
    /\ UNCHANGED <<data, chunkNo>>
    /\ UNCHANGED <<codecVars, configVars>>

DeviceExtra ==
    /\ pc = "AwaitResponse"
    /\ sentLine # <<>>
    /\ Len(wire) = Len(sentLine)
    /\ wire[Len(wire)] = LF
    /\ wire' = wire \o NmeaLine(<<>>, <<CR, LF>>)
    /\ UNCHANGED <<pc, baud, log, dataChunks, result, command, checkChecksum,
                   expectedResponse, sentLine, noise, chunks, pointLen, pointLines>>
    /\ UNCHANGED <<data, chunkNo>>
    /\ UNCHANGED <<codecVars, configVars>>

ChanGetResponse(cc, expected) ==
    /\ pc = "AwaitResponse"
    /\ pc' = "Idle"
    /\ checkChecksum' = cc
    /\ expectedResponse' = expected
    /\ log' = Append(log, [op |-> "readline", data |-> readline(wire)])
    /\ wire' = afterReadline(wire)
    /\ result' = getResponse(readline(wire), cc, expected)
    /\ UNCHANGED <<baud, dataChunks, command, sentLine, noise, chunks, pointLen,
                   pointLines>>
    /\ UNCHANGED <<data, chunkNo>>
    /\ UNCHANGED <<codecVars, configVars>>

NextChannel ==
    \/ \E p \in Payloads : ChanSendCommand(p)
    \/ \E body \in Bodies, eol \in Eols : DeviceRespond(body, eol)
    \/ \E i \in 1..(MaxBody + 5), v \in NoiseBytes : LineNoise(i, v)
    \/ DeviceExtra
    \/ \E cc \in BOOLEAN, expected \in ExpectedPrefixes : ChanGetResponse(cc, expected)

SpecChannel == InitChannel /\ [][NextChannel]_vars

(***************************************************************************)
(* NaviConnection.calcCrcChecksum: CRC-16/XMODEM (polynomial 0x1021,       *)
(* initial value 0, no reflection), digest as two bytes, high byte first.  *)
(***************************************************************************)
CrcPoly == 4129

RECURSIVE CrcShift(_, _)
CrcShift(crc, k) ==
    IF k = 0 THEN crc
    ELSE CrcShift(IF crc >= 32768 THEN BitXor((crc * 2) % 65536, CrcPoly) ELSE crc * 2, k - 1)

RECURSIVE CrcUpdate(_, _)
CrcUpdate(crc, string) ==
    IF string = <<>> THEN crc
    ELSE CrcUpdate(CrcShift(BitXor(crc, Head(string) * 256), 8), Tail(string))

calcCrcChecksum(string) ==
    LET c == CrcUpdate(0, string) IN <<c \div 256, c % 256>>

\* variant: only the low byte of the checksum is compared
checkCrcChecksum_LowByte(string, checksum) ==
    IF checksum = <<>> \/ calcCrcChecksum(string)[2] # checksum[Len(checksum)]
    THEN "BadChecksum" ELSE "ok"

(***************************************************************************)
(* NaviConnection.checkCrcChecksum                                         *)
(***************************************************************************)
checkCrcChecksum(string, checksum) ==
    IF calcCrcChecksum(string) # checksum THEN "BadChecksum" ELSE "ok"

(***************************************************************************)
(* NaviConnection.getDataChunk applied to the bytes resp that were waiting *)
(* in the input buffer: resp[3:-2] is the payload, resp[-2:] the checksum. *)
(***************************************************************************)
STX == 2
EOT == 4
ACK == 6
ContinueByte == 67

\* getDataChunk taking an unknown first byte for the end of the transmission
getDataChunk_UnknownAsEnd(resp) ==
    IF resp = <<>> THEN Returned(<<>>)
    ELSE IF resp[1] = STX
    THEN LET payload == SubSeq(resp, 4, Len(resp) - 2)
             crc == SubSeq(resp, IF Len(resp) > 2 THEN Len(resp) - 1 ELSE 1, Len(resp))
         IN  IF checkCrcChecksum(payload, crc) = "ok" THEN Returned(payload)
             ELSE Raised("BadChecksum")
    ELSE Raised("EndOfTransmission")

getDataChunk(resp) ==
    IF resp = <<>> THEN Returned(<<>>)
    ELSE IF resp[1] = EOT THEN Raised("EndOfTransmission")
    ELSE IF resp[1] = STX
    THEN LET payload == SubSeq(resp, 4, Len(resp) - 2)
             crc == SubSeq(resp, IF Len(resp) > 2 THEN Len(resp) - 1 ELSE 1, Len(resp))
         IN  IF checkCrcChecksum(payload, crc) = "ok" THEN Returned(payload)
             ELSE Raised("BadChecksum")
    ELSE Raised("Error")

(***************************************************************************)
(* NaviConnection.sendBreak / setBaudrate: the calls made on the port      *)
(***************************************************************************)
HighBaudrate == 115200
InitialBaudrate == 9600

sendBreak == [op |-> "sendBreak", data |-> <<>>]

setBaudrate(baudrate) == <<sendBreak, [op |-> "setBaudrate", data |-> <<baudrate>>]>>

(***************************************************************************)
(* The device side of the bulk phase.  A data chunk is 0x02, a sequence    *)
(* number, its complement, the payload and the CRC-16/XMODEM of the        *)
(* payload, computed here bit by bit (most significant bit first).         *)
(***************************************************************************)
MaxReads == 3        \* reads of the receive loop explored

RECURSIVE CrcBits(_, _, _)
CrcBits(reg, byte, k) ==
    IF k = 0 THEN reg
    ELSE LET bit == (byte \div 128) % 2
             top == (reg \div 32768 + bit) % 2
             shifted == (reg * 2) % 65536
         IN  CrcBits(IF top = 1 THEN BitXor(shifted, CrcPoly) ELSE shifted,
                     (byte * 2) % 256, k - 1)

RECURSIVE CrcRegister(_, _)
CrcRegister(reg, s) == IF s = <<>> THEN reg ELSE CrcRegister(CrcBits(reg, Head(s), 8), Tail(s))

DeviceCrc(s) ==
    LET reg == CrcRegister(0, s)
    IN  <<reg \div 256, reg % 256>>

SeqNumbers == {1, 2}

Frame(seq, payload, crc) == <<STX, seq, 255 - seq>> \o payload \o crc

\* payloads the device sends (the real ones hold up to 1024 bytes)
ChunkPayloads == {<<>>, <<1>>, <<1, 255>>}

\* the checksum as sent, or with one of its two bytes altered
CrcVariants(crc) == {crc, <<(crc[1] + 1) % 256, crc[2]>>, <<crc[1], (crc[2] + 128) % 256>>}

DataFrames ==
    {Frame(seq, payload, DeviceCrc(payload)) : seq \in SeqNumbers, payload \in ChunkPayloads}
CorruptFrames ==
    UNION {{Frame(1, payload, crc) : crc \in CrcVariants(DeviceCrc(payload)) \ {DeviceCrc(payload)}} :
        payload \in ChunkPayloads}
\* end markers, a truncated chunk, a negative acknowledge byte
OtherFrames == {<<EOT>>, <<EOT, 0>>, <<STX>>, <<21>>}
Frames == DataFrames \cup CorruptFrames \cup OtherFrames

\* "$POEM12,14" (tracks), "$POEM12,2" (pois), "$POEM12,12" (route)
GetTracksMessage == <<36, 80, 79, 69, 77, 49, 50, 44, 49, 52>>
GetPoisMessage == <<36, 80, 79, 69, 77, 49, 50, 44, 50>>
GetRouteMessage == <<36, 80, 79, 69, 77, 49, 50, 44, 49, 50>>
GetMessages == {GetTracksMessage, GetPoisMessage, GetRouteMessage}

\* "$POEM200,12"
Poem200_12 == <<36, 80, 79, 69, 77, 50, 48, 48, 44, 49, 50>>

\* answers of the device to the initiation command
InitResponses ==
    { NmeaLine(Tail(Poem200_12), <<CR, LF>>),                   \* $POEM200,12*HH
      NmeaLine(Tail(Poem200_12) \o <<44, 48, 48, 52>>, <<CR, LF>>), \* $POEM200,12,004*HH
      Poem200_12 \o <<STAR, 48, 48, CR, LF>>,                   \* wrong checksum
      NmeaLine(SubSeq(Poem200_12, 2, 10), <<CR, LF>>),          \* $POEM200,1*HH
      NmeaLine(<<80, 79, 69, 77, 50, 48, 49>>, <<CR, LF>>),     \* $POEM201*HH
      <<DOLLAR>>,
      <<CR, LF>> }

ReadsOf(l) == {i \in 1..Len(l) : l[i].op = "read"}

(***************************************************************************)
(* NaviConnection.getData, one action per stretch between two reads.       *)
(***************************************************************************)
Init ==
    /\ pc = "Idle"
    /\ baud = InitialBaudrate
    /\ log = <<>>
    /\ wire = <<>>
    /\ dataChunks = <<>>
    /\ result = None
    /\ command = <<>>
    /\ checkChecksum = TRUE
    /\ expectedResponse = <<>>
    /\ sentLine = <<>>
    /\ noise = NoNoise
    /\ chunks = <<>>
    /\ pointLen = 1
    /\ pointLines = <<>>
    /\ data = <<>>
    /\ chunkNo = 0
    /\ InitCodec

\* getData(message): self.sendCommand(message)
GetData(message) ==
    /\ pc = "Idle"
    /\ pc' = "AwaitResponse"
    /\ command' = message
    /\ log' = <<sendCommand(message)>>
    /\ dataChunks' = <<>>
    /\ result' = None
    /\ UNCHANGED <<baud, wire, checkChecksum, expectedResponse, sentLine, noise, chunks,
                   pointLen, pointLines>>
    /\ UNCHANGED <<data, chunkNo>>
    /\ UNCHANGED <<codecVars, configVars>>

DeviceAnswer(line) ==
    /\ pc = "AwaitResponse"
    /\ wire = <<>>
    /\ wire' = line
    /\ UNCHANGED <<pc, baud, log, dataChunks, result, command, checkChecksum,
                   expectedResponse, sentLine, noise, chunks, pointLen, pointLines>>
    /\ UNCHANGED <<data, chunkNo>>
    /\ UNCHANGED <<codecVars, configVars>>

\* variant: the response is read but an exception of getResponse is swallowed
GetData_getResponse_Unchecked ==
    /\ pc = "AwaitResponse"
    /\ checkChecksum' = TRUE
    /\ expectedResponse' = Poem200_12
    /\ log' = Append(log, [op |-> "readline", data |-> readline(wire)])
    /\ wire' = afterReadline(wire)
    /\ pc' = "Initiated"
    /\ UNCHANGED <<baud, dataChunks, result, command, sentLine, noise, chunks, pointLen,
                   pointLines>>
    /\ UNCHANGED <<data, chunkNo>>
    /\ UNCHANGED <<codecVars, configVars>>

\* resp = self.getResponse(expectedResponse=b'$POEM200,12')
GetData_getResponse ==
    /\ pc = "AwaitResponse"
    /\ checkChecksum' = TRUE
    /\ expectedResponse' = Poem200_12
    /\ log' = Append(log, [op |-> "readline", data |-> readline(wire)])
    /\ wire' = afterReadline(wire)
    /\ LET r == getResponse(readline(wire), TRUE, Poem200_12)
       IN  IF r.kind = "return"
           THEN pc' = "Initiated" /\ result' = result
           ELSE pc' = "Idle" /\ result' = r
    /\ UNCHANGED <<baud, dataChunks, command, sentLine, noise, chunks, pointLen, pointLines>>
    /\ UNCHANGED <<data, chunkNo>>
    /\ UNCHANGED <<codecVars, configVars>>

\* self.setBaudrate(115200)
GetData_setBaudrate ==
    /\ pc = "Initiated"
    /\ pc' = "HighBaud"
    /\ log' = log \o setBaudrate(HighBaudrate)
    /\ baud' = HighBaudrate
    /\ UNCHANGED <<wire, dataChunks, result, command, checkChecksum, expectedResponse,
                   sentLine, noise, chunks, pointLen, pointLines>>
    /\ UNCHANGED <<data, chunkNo>>
    /\ UNCHANGED <<codecVars, configVars>>

\* self.sendRawCommand(continueMessage)
GetData_continue ==
    /\ pc = "HighBaud"
    /\ pc' = "Receiving"
    /\ log' = Append(log, sendRawCommand(<<ContinueByte>>))
    /\ UNCHANGED <<baud, wire, dataChunks, result, command, checkChecksum, expectedResponse,
                   sentLine, noise, chunks, pointLen, pointLines>>
    /\ UNCHANGED <<data, chunkNo>>
    /\ UNCHANGED <<codecVars, configVars>>

DeviceSend(frame) ==
    /\ pc = "Receiving"
    /\ wire = <<>>
    /\ wire' = frame
    /\ UNCHANGED <<pc, baud, log, dataChunks, result, command, checkChecksum,
                   expectedResponse, sentLine, noise, chunks, pointLen, pointLines>>
    /\ UNCHANGED <<data, chunkNo>>
    /\ UNCHANGED <<codecVars, configVars>>

\* one turn of the while loop: getDataChunk on what is waiting (nothing, when the
\* device has sent nothing during the sleep), then the acknowledge and the append, or
\* the break on EndOfTransmission, or the exception leaving getData
GetData_getDataChunk ==
    /\ pc = "Receiving"
    /\ Cardinality(ReadsOf(log)) < MaxReads
    /\ wire' = <<>>
    /\ LET r == getDataChunk(wire)
           read == [op |-> "read", data |-> wire]
       IN  IF r.kind = "return"
           THEN /\ log' = log \o <<read, sendRawCommand(<<ACK>>)>>
                /\ dataChunks' = Append(dataChunks, r.value)
                /\ UNCHANGED <<pc, result>>
           ELSE IF r.kind = "EndOfTransmission"
           THEN /\ log' = Append(log, read)
                /\ pc' = "EndMarker"
                /\ UNCHANGED <<dataChunks, result>>
           ELSE /\ log' = Append(log, read)
                /\ pc' = "Idle"
                /\ result' = r
                /\ UNCHANGED dataChunks
    /\ UNCHANGED <<baud, command, checkChecksum, expectedResponse, sentLine, noise, chunks,
                   pointLen, pointLines>>
    /\ UNCHANGED <<data, chunkNo>>
    /\ UNCHANGED <<codecVars, configVars>>

\* variant: the chunks are returned without restoring the baud rate
GetData_return_NoRestore ==
    /\ pc = "EndMarker"
    /\ pc' = "Idle"
    /\ result' = Returned(dataChunks)
    /\ UNCHANGED <<baud, log, wire, dataChunks, command, checkChecksum, expectedResponse,
                   sentLine, noise, chunks, pointLen, pointLines>>
    /\ UNCHANGED <<data, chunkNo>>
    /\ UNCHANGED <<codecVars, configVars>>

\* self.setBaudrate(9600); return dataChunks
GetData_return ==
    /\ pc = "EndMarker"
    /\ pc' = "Idle"
    /\ log' = log \o setBaudrate(InitialBaudrate)
    /\ baud' = InitialBaudrate
    /\ result' = Returned(dataChunks)
    /\ UNCHANGED <<wire, dataChunks, command, checkChecksum, expectedResponse, sentLine,
                   noise, chunks, pointLen, pointLines>>
    /\ UNCHANGED <<data, chunkNo>>
    /\ UNCHANGED <<codecVars, configVars>>

Next ==
    \/ \E message \in GetMessages : GetData(message)
    \/ \E line \in InitResponses : DeviceAnswer(line)
    \/ GetData_getResponse
    \/ GetData_setBaudrate
    \/ GetData_continue
    \/ \E frame \in Frames : DeviceSend(frame)
    \/ GetData_getDataChunk
    \/ GetData_return

Spec == Init /\ [][Next]_vars

(***************************************************************************)
(* NaviConnection.parseChunks                                              *)
(***************************************************************************)
MaxChunks == 2       \* longest list of chunks drawn
MaxChunkBytes == 3   \* longest chunk drawn
MaxPointLen == 3     \* largest record length drawn

Padding == 255

Min(a, b) == IF a < b THEN a ELSE b

\* [chunk[i:i+pointLen] for i in range(0, len(chunk), pointLen)]
Slices(chunk, L) ==
    [k \in 1..((Len(chunk) + L - 1) \div L) |->
        SubSeq(chunk, (k - 1) * L + 1, Min(k * L, Len(chunk)))]

\* the padding test with the length bound turned into an equality
IsPadding_FullOnly(l, L) == Len(l) = L /\ {l[i] : i \in 1..Len(l)} = {Padding}

\* len(l) <= pointLen and set(l) == set([0xff, ])
IsPadding(l, L) == Len(l) <= L /\ {l[i] : i \in 1..Len(l)} = {Padding}

\* the lines appended before the break
BeforeBreak(lines, L) ==
    LET pads == {k \in 1..Len(lines) : IsPadding(lines[k], L)}
    IN  IF pads = {} THEN lines
        ELSE SubSeq(lines, 1, (CHOOSE k \in pads : \A j \in pads : k <= j) - 1)

RECURSIVE ParseLoop(_, _, _)
ParseLoop(rest, L, lines) ==
    IF rest = <<>> THEN lines
    ELSE LET incomplete == lines # <<>> /\ Len(lines[Len(lines)]) # L
             numOfStripBytes == L - Len(lines[Len(lines)])
             chunkPre == SubSeq(Head(rest), 1, Min(numOfStripBytes, Len(Head(rest))))
             chunkPost == SubSeq(Head(rest), Len(chunkPre) + 1, Len(Head(rest)))
             completed == IF incomplete
                          THEN [lines EXCEPT ![Len(lines)] = @ \o chunkPre]
                          ELSE lines
             chunk == IF incomplete THEN chunkPost ELSE Head(rest)
         IN  ParseLoop(Tail(rest), L, completed \o BeforeBreak(Slices(chunk, L), L))

parseChunks(chunkList, L) == ParseLoop(chunkList, L, <<>>)

ParseBytes == {1, Padding}
ParseChunkSet == SeqsUpTo(ParseBytes, MaxChunkBytes)

InitParse ==
    /\ pc = "Idle"
    /\ baud = InitialBaudrate
    /\ log = <<>>
    /\ wire = <<>>
    /\ dataChunks = <<>>
    /\ result = None
    /\ command = <<>>
    /\ checkChecksum = TRUE
    /\ expectedResponse = <<>>
    /\ sentLine = <<>>
    /\ noise = NoNoise
    /\ chunks \in SeqsUpTo(ParseChunkSet, MaxChunks)
    /\ pointLen \in 1..MaxPointLen
    /\ pointLines = <<>>
    /\ data = <<>>
    /\ chunkNo = 0
    /\ InitCodec

ParseChunks ==
    /\ pc = "Idle"
    /\ pc' = "Parsed"
    /\ pointLines' = parseChunks(chunks, pointLen)
    /\ UNCHANGED <<baud, log, wire, dataChunks, result, command, checkChecksum,
                   expectedResponse, sentLine, noise, chunks, pointLen>>
    /\ UNCHANGED <<data, chunkNo>>
    /\ UNCHANGED <<codecVars, configVars>>

NextParse == ParseChunks

SpecParse == InitParse /\ [][NextParse]_vars

(***************************************************************************)
(* NaviConnection.makeChunks                                               *)
(***************************************************************************)
MaxShort == 24      \* the short payloads drawn have 0..MaxShort bytes

ChunkSize == 1024

\* sum(chunk), summed by halves to keep the recursion shallow
RECURSIVE SumRange(_, _, _)
SumRange(s, lo, hi) ==
    IF lo > hi THEN 0
    ELSE IF lo = hi THEN s[lo]
    ELSE LET mid == (lo + hi) \div 2
         IN  SumRange(s, lo, mid) + SumRange(s, mid + 1, hi)

sum(s) == SumRange(s, 1, Len(s))

\* b"\xff"*(1024-len(chunks[-1]))
fillFFs(last) == [i \in 1..(ChunkSize - Len(last)) |-> Padding]

\* the header with the 0-based index as sequence byte
header_ZeroBased(ind) == <<STX, ind, 255 - ind>>

\* bytes((0x02, ind+1, 0xff-ind-1))
header(ind) == <<STX, ind + 1, 255 - ind - 1>>

\* bytes((sum(chunk)&0xff, ))
checksum(chunk) == <<sum(chunk) % 256>>

\* [data[i:i+1024] for i in range(0, len(data), 1024)]
DataSlices(d) ==
    [k \in 1..((Len(d) + ChunkSize - 1) \div ChunkSize) |->
        SubSeq(d, (k - 1) * ChunkSize + 1, Min(k * ChunkSize, Len(d)))]

\* chunks[-1] of an empty list raises IndexError; bytes() of a value outside
\* 0..255 raises ValueError, which the 256th header does
makeChunks(d) ==
    LET rawChunks == DataSlices(d)
        n == Len(rawChunks)
        padded == [rawChunks EXCEPT ![n] = @ \o fillFFs(rawChunks[n])]
    IN  IF n = 0 THEN Raised("IndexError")
        ELSE IF n > 255 THEN Raised("ValueError")
        ELSE Returned([k \in 1..n |-> header(k - 1) \o padded[k] \o checksum(padded[k])])

\* payloads: n bytes, the i-th being (a*i + b) mod 256 (SubSeq makes it a tuple)
Pattern(n, a, b) == SubSeq([i \in 1..n |-> (a * i + b) % 256], 1, n)

DataPatterns == {<<0, 255>>, <<0, 0>>, <<1, 0>>, <<7, 3>>}

DataLengths ==
    (0..MaxShort) \cup {ChunkSize - 1, ChunkSize, ChunkSize + 1, 2 * ChunkSize, 2 * ChunkSize + 1}

\* the longest payload whose chunks all have a sequence byte, and one byte more
LargeLengths == {255 * ChunkSize, 255 * ChunkSize + 1}

MakeData ==
    {Pattern(n, p[1], p[2]) : n \in DataLengths, p \in DataPatterns}
        \cup {Pattern(n, 0, 0) : n \in LargeLengths}

InitMake ==
    /\ pc = "Idle"
    /\ baud = InitialBaudrate
    /\ log = <<>>
    /\ wire = <<>>
    /\ dataChunks = <<>>
    /\ result = None
    /\ command = <<>>
    /\ checkChecksum = TRUE
    /\ expectedResponse = <<>>
    /\ sentLine = <<>>
    /\ noise = NoNoise
    /\ chunks = <<>>
    /\ pointLen = 1
    /\ pointLines = <<>>
    /\ data = <<>>
    /\ chunkNo = 0
    /\ InitCodec

MakeChunks(d) ==
    /\ pc = "Idle"
    /\ pc' = "Made"
    /\ data' = d
    /\ result' = makeChunks(d)
    /\ UNCHANGED <<baud, log, wire, dataChunks, command, checkChecksum, expectedResponse,
                   sentLine, noise, chunks, pointLen, pointLines, chunkNo>>
    /\ UNCHANGED <<codecVars, configVars>>

NextMake == \E d \in MakeData : MakeChunks(d)

SpecMake == InitMake /\ [][NextMake]_vars

(***************************************************************************)
(* NaviConnection.waitForAcknowledge                                       *)
(***************************************************************************)
NAK == 21

\* the wait taking the first byte read for the answer: 0x15 negative, any other
\* byte positive
waitForAcknowledge_AnyByte(w) ==
    IF w = <<>>
    THEN [reads |-> <<[op |-> "read", data |-> <<>>]>>,
          rest |-> <<>>,
          outcome |-> Raised("TypeError")]
    ELSE [reads |-> <<[op |-> "read", data |-> <<w[1]>>]>>,
          rest |-> Tail(w),
          outcome |-> Returned(w[1] # NAK)]

\* the loop on what the device sends during the timeout (w): bytes are read one by
\* one up to the first 0x15 (False) or 0x06 (True); when there is none the read that
\* comes back empty ends the wait: TimeoutError is raised and caught in the method
\* itself, whose handler raises TypeError at msg+"\n" before it reaches sys.exit
waitForAcknowledge(w) ==
    LET acks == {i \in 1..Len(w) : w[i] \in {NAK, ACK}}
        first == CHOOSE i \in acks : \A j \in acks : i <= j
    IN  IF acks = {}
        THEN [reads |-> [i \in 1..(Len(w) + 1) |->
                            [op |-> "read", data |-> IF i <= Len(w) THEN <<w[i]>> ELSE <<>>]],
              rest |-> <<>>,
              outcome |-> Raised("TypeError")]
        ELSE [reads |-> [i \in 1..first |-> [op |-> "read", data |-> <<w[i]>>]],
              rest |-> SubSeq(w, first + 1, Len(w)),
              outcome |-> Returned(w[first] = ACK)]

(***************************************************************************)
(* NaviConnection.sendData, one action per stretch between two waits.      *)
(***************************************************************************)
MaxFrameWrites == 3     \* chunk frames written in one sendData

\* "$POEM12,4" (pois), "$POEM12,11" (route)
sendPoiMessage == <<36, 80, 79, 69, 77, 49, 50, 44, 52>>
sendRouteMessage == <<36, 80, 79, 69, 77, 49, 50, 44, 49, 49>>
SendMessages == {sendPoiMessage, sendRouteMessage}

\* payloads of no, one and two chunks
SendPayloads == {<<>>, <<1>>, Pattern(ChunkSize + 1, 1, 0)}

\* what the device may send while the engine waits for an acknowledge
AckReplies == {<<ACK>>, <<NAK>>, <<0>>, <<0, ACK>>, <<NAK, ACK>>}

\* the writes of chunk frames in a log
FrameWrites(l) == {i \in 1..Len(l) : l[i].op = "write" /\ Len(l[i].data) > 1 /\ l[i].data[1] = STX}

\* sendData(initMessage, data, checkChecksum): self.sendCommand(initMessage)
SendData(initMessage, d, cc) ==
    /\ pc = "Idle"
    /\ pc' = "AwaitResponse"
    /\ command' = initMessage
    /\ data' = d
    /\ checkChecksum' = cc
    /\ expectedResponse' = Poem200_12
    /\ log' = <<sendCommand(initMessage)>>
    /\ dataChunks' = <<>>
    /\ chunkNo' = 0
    /\ result' = None
    /\ UNCHANGED <<baud, wire, sentLine, noise, chunks, pointLen, pointLines>>
    /\ UNCHANGED <<codecVars, configVars>>

\* resp = self.getResponse(checkChecksum=checkChecksum, expectedResponse=b'$POEM200,12')
SendData_getResponse ==
    /\ pc = "AwaitResponse"
    /\ log' = Append(log, [op |-> "readline", data |-> readline(wire)])
    /\ wire' = afterReadline(wire)
    /\ LET r == getResponse(readline(wire), checkChecksum, Poem200_12)
       IN  IF r.kind = "return"
           THEN pc' = "Initiated" /\ result' = result
           ELSE pc' = "Idle" /\ result' = r
    /\ UNCHANGED <<baud, dataChunks, command, checkChecksum, expectedResponse, sentLine,
                   noise, chunks, pointLen, pointLines, data, chunkNo>>
    /\ UNCHANGED <<codecVars, configVars>>

\* self.setBaudrate(115200); dataChunks = self.makeChunks(data)
SendData_setBaudrate ==
    /\ pc = "Initiated"
    /\ log' = log \o setBaudrate(HighBaudrate)
    /\ baud' = HighBaudrate
    /\ LET r == makeChunks(data)
       IN  IF r.kind = "return"
           THEN pc' = "AwaitInitial" /\ dataChunks' = r.value /\ result' = result
           ELSE pc' = "Idle" /\ dataChunks' = dataChunks /\ result' = r
    /\ UNCHANGED <<wire, command, checkChecksum, expectedResponse, sentLine, noise, chunks,
                   pointLen, pointLines, data, chunkNo>>
    /\ UNCHANGED <<codecVars, configVars>>

DeviceAcknowledge(reply) ==
    /\ pc \in {"AwaitInitial", "AwaitAck", "AwaitEot"}
    /\ wire = <<>>
    /\ wire' = reply
    /\ UNCHANGED <<pc, baud, log, dataChunks, result, command, checkChecksum,
                   expectedResponse, sentLine, noise, chunks, pointLen, pointLines, data,
                   chunkNo>>
    /\ UNCHANGED <<codecVars, configVars>>

\* resp = self.waitForAcknowledge() before the loop, its value unused, then the
\* first self.sendRawCommand(chunk)
SendData_initialAcknowledge ==
    /\ pc = "AwaitInitial"
    /\ LET w == waitForAcknowledge(wire)
       IN  /\ wire' = w.rest
           /\ IF w.outcome.kind = "return"
              THEN /\ pc' = "AwaitAck"
                   /\ chunkNo' = 1
                   /\ log' = log \o w.reads \o <<sendRawCommand(dataChunks[1])>>
                   /\ result' = result
              ELSE /\ pc' = "Idle"
                   /\ chunkNo' = chunkNo
                   /\ log' = log \o w.reads
                   /\ result' = w.outcome
    /\ UNCHANGED <<baud, dataChunks, command, checkChecksum, expectedResponse, sentLine,
                   noise, chunks, pointLen, pointLines, data>>
    /\ UNCHANGED <<codecVars, configVars>>

\* the condition of the inner loop taken for false whatever the device answered
resend_Never(resp) == FALSE

\* while resp is False
resend(resp) == resp = FALSE

\* resp = self.waitForAcknowledge() in the loop, then the write that follows it: the
\* same chunk again, the next chunk, or the end of transmission byte
SendData_waitForAcknowledge ==
    /\ pc = "AwaitAck"
    /\ LET w == waitForAcknowledge(wire)
       IN  /\ wire' = w.rest
           /\ IF w.outcome.kind # "return"
              THEN /\ pc' = "Idle"
                   /\ chunkNo' = chunkNo
                   /\ log' = log \o w.reads
                   /\ result' = w.outcome
              ELSE IF resend(w.outcome.value)
              THEN /\ Cardinality(FrameWrites(log)) < MaxFrameWrites
                   /\ pc' = "AwaitAck"
                   /\ chunkNo' = chunkNo
                   /\ log' = log \o w.reads \o <<sendRawCommand(dataChunks[chunkNo])>>
                   /\ result' = result
              ELSE IF chunkNo < Len(dataChunks)
              THEN /\ pc' = "AwaitAck"
                   /\ chunkNo' = chunkNo + 1
                   /\ log' = log \o w.reads \o <<sendRawCommand(dataChunks[chunkNo + 1])>>
                   /\ result' = result
              ELSE /\ pc' = "AwaitEot"
                   /\ chunkNo' = chunkNo
                   /\ log' = log \o w.reads \o <<sendRawCommand(<<EOT>>)>>
                   /\ result' = result
    /\ UNCHANGED <<baud, dataChunks, command, checkChecksum, expectedResponse, sentLine,
                   noise, chunks, pointLen, pointLines, data>>
    /\ UNCHANGED <<codecVars, configVars>>

\* assert self.waitForAcknowledge()==True, the Error raised in its place, and on
\* success self.setBaudrate(9600)
SendData_endOfTransfer ==
    /\ pc = "AwaitEot"
    /\ pc' = "Idle"
    /\ LET w == waitForAcknowledge(wire)
       IN  /\ wire' = w.rest
           /\ IF w.outcome.kind # "return"
              THEN /\ log' = log \o w.reads
                   /\ baud' = baud
                   /\ result' = w.outcome
              ELSE IF w.outcome.value = TRUE
              THEN /\ log' = log \o w.reads \o setBaudrate(InitialBaudrate)
                   /\ baud' = InitialBaudrate
                   /\ result' = Returned(<<>>)
              ELSE /\ log' = log \o w.reads
                   /\ baud' = baud
                   /\ result' = Raised("Error")
    /\ UNCHANGED <<dataChunks, command, checkChecksum, expectedResponse, sentLine, noise,
                   chunks, pointLen, pointLines, data, chunkNo>>
    /\ UNCHANGED <<codecVars, configVars>>

NextSend ==
    \/ \E initMessage \in SendMessages, d \in SendPayloads, cc \in BOOLEAN :
           SendData(initMessage, d, cc)
    \/ \E line \in InitResponses : DeviceAnswer(line)
    \/ SendData_getResponse
    \/ SendData_setBaudrate
    \/ \E reply \in AckReplies : DeviceAcknowledge(reply)
    \/ SendData_initialAcknowledge
    \/ SendData_waitForAcknowledge
    \/ SendData_endOfTransfer

SpecSend == Init /\ [][NextSend]_vars

(***************************************************************************)
(* Claims about the command/response channel (SpecChannel).                *)
(***************************************************************************)
\* the two uppercase hexadecimal digits of the XOR of the bytes of s
XorHex(s) == <<HexDigits[(XorAll(s) \div 16) + 1], HexDigits[(XorAll(s) % 16) + 1]>>

WritesOf(l) == {i \in 1..Len(l) : l[i].op = "write"}

\* C1: sendCommand(payload) writes exactly payload ++ "*" ++ HH ++ CR LF, HH being
\* the XOR of the payload bytes (one leading "$" left out) as two uppercase
\* hexadecimal digits.
C1_SendCommandFrame ==
    pc = "AwaitResponse" =>
        LET summed == IF command # <<>> /\ command[1] = DOLLAR THEN Tail(command) ELSE command
        IN  /\ WritesOf(log) = {1}
            /\ log[1].data = command \o <<STAR>> \o XorHex(summed) \o <<CR, LF>>

C1_Witness ==
    /\ pc = "AwaitResponse"
    /\ command = <<DOLLAR, 74>>
    /\ log = <<[op |-> "write", data |-> <<DOLLAR, 74, STAR, 52, 65, CR, LF>>]>>

\* the line ends, once stripped of whitespace and of a leading "$", in "*HH" with HH
\* the XOR checksum of what precedes the "*" (letter case of HH not significant)
ChecksumHolds(resp) ==
    LET s == strip(resp)
        t == IF s # <<>> /\ s[1] = DOLLAR THEN Tail(s) ELSE s
        n == Len(t)
    IN  /\ n >= 3
        /\ t[n - 2] = STAR
        /\ upper(SubSeq(t, n - 1, n)) = XorHex(SubSeq(t, 1, n - 3))

\* C2: getResponse reads exactly one line; with checksum validation on, a line whose
\* trailing *HH is not the recomputed checksum fails with BadChecksum; with an
\* expected prefix, a line not starting with it fails with BadResponse; otherwise
\* the line is returned unchanged.
C2_GetResponseOutcome ==
    (pc = "Idle" /\ result # None) =>
        LET resp == log[Len(log)].data
        IN  /\ log[Len(log)].op = "readline"
            /\ IF checkChecksum /\ ~ChecksumHolds(resp)
               THEN result = Raised("BadChecksum")
               ELSE IF expectedResponse # <<>> /\ ~startswith(resp, expectedResponse)
               THEN result = Raised("BadResponse")
               ELSE result = Returned(resp)

\* C3 as stated: for a valid line $body*HH, changing any single byte to a different
\* value makes getResponse (checksum validation on) fail with BadChecksum.
C3_AnyByteFlip ==
    (pc = "Idle" /\ result # None /\ noise.pos # 0 /\ checkChecksum) =>
        result = Raised("BadChecksum")

\* the altered byte is a body byte or the "*" and did not become a line feed, or it
\* is a checksum digit that became neither whitespace nor the same digit in the other
\* letter case
GuardedFlip ==
    LET n == CoreLen(sentLine)
    IN  \/ noise.pos \in 2..(n - 2) /\ noise.byte # LF
        \/ /\ noise.pos \in {n - 1, n}
           /\ noise.byte \notin Whitespace
           /\ upper(<<noise.byte>>) # upper(<<sentLine[noise.pos]>>)

\* C3 (amended): for a valid line $body*HH, changing one byte of the body or the "*"
\* to a different value other than line feed, or one checksum digit to a different
\* non-whitespace value other than the same digit in the other letter case, makes
\* getResponse (checksum validation on) fail with BadChecksum.
C3_GuardedByteFlip ==
    (pc = "Idle" /\ result # None /\ noise.pos # 0 /\ checkChecksum /\ GuardedFlip) =>
        result = Raised("BadChecksum")

C3_Witness ==
    /\ pc = "Idle"
    /\ checkChecksum
    /\ sentLine = <<DOLLAR, 74, STAR, 52, 65, CR, LF>>
    /\ noise = [pos |-> 2, byte |-> 75]
    /\ result = Raised("BadChecksum")

(***************************************************************************)
(* Claims about the receive path (Spec).                                   *)
(***************************************************************************)
Break == [op |-> "sendBreak", data |-> <<>>]
BaudChange(b) == [op |-> "setBaudrate", data |-> <<b>>]
AckWrite == [op |-> "write", data |-> <<ACK>>]

IsEotRead(e) == e.op = "read" /\ e.data # <<>> /\ e.data[1] = EOT
IsChunkRead(e) == e.op = "read" /\ e.data # <<>> /\ e.data[1] = STX

\* the bytes between the 3-byte header and the last two bytes, and the last two bytes
Between(d) == SubSeq(d, 4, Len(d) - 2)
CrcField(d) == SubSeq(d, IF Len(d) > 2 THEN Len(d) - 1 ELSE 1, Len(d))
CrcValid(d) == CrcField(d) = DeviceCrc(Between(d))

\* the line passes the checksum and starts with $POEM200,12
ResponseAcknowledges(l) == ChecksumHolds(l) /\ startswith(l, Poem200_12)

FirstEot == CHOOSE i \in 1..Len(log) : IsEotRead(log[i]) /\ \A j \in 1..(i - 1) : ~IsEotRead(log[j])

\* the payloads of the reads made before position i of the log, in arrival order
PayloadsBefore(i) ==
    LET reads == {j \in ReadsOf(log) : j < i}
    IN  [k \in 1..Cardinality(reads) |-> Between(log[4 + 2 * k].data)]

\* C4: the steps of getData occur in this order: initiation command written, response
\* with prefix $POEM200,12 validated, break, baud rate 115200, one "C" written, chunks
\* pulled until the end marker, baud rate back to 9600; the baud rate is never changed
\* to 115200 before the acknowledging response has been validated.
C4_GetDataOrder ==
    LET n == Len(log)
        ended(i) == \E j \in 1..(i - 1) : IsEotRead(log[j])
    IN  /\ n >= 1 => log[1] = [op |-> "write",
                               data |-> command \o <<STAR>> \o XorHex(Tail(command)) \o <<CR, LF>>]
        /\ n >= 2 => log[2].op = "readline"
        /\ n >= 3 => ResponseAcknowledges(log[2].data) /\ log[3] = Break
        /\ n >= 4 => log[4] = BaudChange(HighBaudrate)
        /\ n >= 5 => log[5] = [op |-> "write", data |-> <<ContinueByte>>]
        /\ \A i \in 6..n :
              IF ended(i)
              THEN \/ i = FirstEot + 1 /\ log[i] = Break
                   \/ i = FirstEot + 2 /\ log[i] = BaudChange(InitialBaudrate)
              ELSE IF (i - 6) % 2 = 0 THEN log[i].op = "read" ELSE log[i] = AckWrite
        /\ \A i \in 1..n : log[i] = BaudChange(HighBaudrate) => i = 4
        /\ result.kind = "return" =>
              /\ ended(n)
              /\ n = FirstEot + 2
              /\ baud = InitialBaudrate

C4_Witness ==
    /\ pc = "Idle"
    /\ result.kind = "return"
    /\ Len(result.value) = 2
    /\ Len(log) = 12

\* C5: if the initiation response fails its checksum or lacks the expected prefix,
\* BadResponse (or BadChecksum) propagates to the caller and nothing (break, baud
\* change, continuation byte, acknowledge byte) is emitted afterwards.
C5_BadInitResponse ==
    (Len(log) >= 2 /\ log[2].op = "readline" /\ ~ResponseAcknowledges(log[2].data)) =>
        /\ pc = "Idle"
        /\ result.kind \in {"BadResponse", "BadChecksum"}
        /\ Len(log) = 2

\* C6: a received chunk starting with 0x02 whose last two bytes differ from the
\* CRC-16/XMODEM of the bytes between the header and them makes the receive fail with
\* BadChecksum; the chunk is not acknowledged and its payload not returned.
C6_CrcMismatchFails ==
    \A i \in ReadsOf(log) :
        (IsChunkRead(log[i]) /\ ~CrcValid(log[i].data)) =>
            /\ i = Len(log)
            /\ pc = "Idle"
            /\ result = Raised("BadChecksum")
            /\ dataChunks = PayloadsBefore(i)

C6_Witness ==
    /\ pc = "Idle"
    /\ result = Raised("BadChecksum")
    /\ Len(log) = 8
    /\ log[8].op = "read"
    /\ Len(log[8].data) = 6
    /\ Len(dataChunks) = 1

\* C7: the engine writes a single 0x06 for each data chunk whose CRC validated, after
\* validating it and before the next read; the number of 0x06 bytes written equals the
\* number of validated data chunks received.
C7_AckPerValidatedChunk ==
    LET acks == {i \in 1..Len(log) : log[i] = AckWrite}
        validated == {i \in ReadsOf(log) : IsChunkRead(log[i]) /\ CrcValid(log[i].data)}
    IN  /\ Cardinality(acks) = Cardinality(validated)
        /\ \A i \in acks : i - 1 \in validated

\* C8: a read whose first byte is 0x04 ends the receive loop: no 0x06 is written for
\* it, no further chunk is read, and the baud rate is set back to 9600 before getData
\* returns the chunks collected so far.
C8_EndMarkerEndsReceive ==
    \A i \in ReadsOf(log) :
        IsEotRead(log[i]) =>
            /\ \A j \in (i + 1)..Len(log) : log[j].op \notin {"read", "readline", "write"}
            /\ pc \in {"EndMarker", "Idle"}
            /\ pc = "EndMarker" => result = None /\ i = Len(log)
            /\ pc = "Idle" =>
                  /\ result = Returned(PayloadsBefore(i))
                  /\ SubSeq(log, i + 1, Len(log)) = <<Break, BaudChange(InitialBaudrate)>>
                  /\ baud = InitialBaudrate

C8_Witness ==
    /\ pc = "Idle"
    /\ result = Returned(<< <<1>> >>)
    /\ Len(log) = 10
    /\ log[8] = [op |-> "read", data |-> <<EOT, 0>>]
    /\ baud = InitialBaudrate

\* C9: in every completed receive the sequence-number bytes of the accepted chunks are
\* strictly ascending, and the returned payloads are in arrival order.
C9_AscendingSequence ==
    result.kind = "return" =>
        LET accepted == {i \in ReadsOf(log) : IsChunkRead(log[i])}
        IN  /\ \A i, j \in accepted : i < j => log[i].data[2] < log[j].data[2]
            /\ result.value = PayloadsBefore(FirstEot)

\* the log entry at position i is a violation getData detects: an initiation
\* response that does not acknowledge, a chunk whose CRC does not match, a first byte
\* that is neither 0x02 nor 0x04
IsViolation(i) ==
    \/ i = 2 /\ log[i].op = "readline" /\ ~ResponseAcknowledges(log[i].data)
    \/ IsChunkRead(log[i]) /\ ~CrcValid(log[i].data)
    \/ log[i].op = "read" /\ log[i].data # <<>> /\ log[i].data[1] \notin {STX, EOT}

\* C20: a bad initiation response, a chunk CRC mismatch or an unknown start byte ends
\* getData with an exception: nothing is read or written after it (the chunk is not
\* requested again) and no chunk list is returned, whatever was received before.
C20_ViolationAborts ==
    \A i \in 1..Len(log) :
        IsViolation(i) =>
            /\ i = Len(log)
            /\ pc = "Idle"
            /\ result.kind \notin {"none", "return"}

\* an unknown start byte read after one chunk was received and acknowledged
C20_Witness ==
    /\ pc = "Idle"
    /\ result = Raised("Error")
    /\ Len(log) = 8
    /\ log[8] = [op |-> "read", data |-> <<21>>]
    /\ Len(dataChunks) = 1
    /\ dataChunks[1] # <<>>

(***************************************************************************)
(* Claims about parseChunks (SpecParse).                                   *)
(***************************************************************************)
\* C10: for any list of chunk payloads and any record length L, parseChunks never
\* emits a record shorter than L.
C10_NoShortRecord ==
    pc = "Parsed" => \A i \in 1..Len(pointLines) : Len(pointLines[i]) >= pointLen

\* a non-empty byte string made of 0xFF only
OnlyPadding(l) == l # <<>> /\ \A i \in 1..Len(l) : l[i] = Padding

\* k bytes of 0xFF
PaddingRun(k) == [i \in 1..k |-> Padding]

\* the chunk list with k bytes of 0xFF appended to its last chunk
PaddedChunks(k) == [chunks EXCEPT ![Len(chunks)] = @ \o PaddingRun(k)]

\* C11: parseChunks never emits a record made of 0xFF only, and a run of at most L
\* bytes of 0xFF appended to the last chunk of a payload of whole records adds no
\* record to the result.
C11_PaddingNeverEmitted ==
    pc = "Parsed" =>
        /\ \A i \in 1..Len(pointLines) : ~OnlyPadding(pointLines[i])
        /\ (chunks # <<>> /\ \A i \in 1..Len(pointLines) : Len(pointLines[i]) = pointLen)
               => \A k \in 1..pointLen : parseChunks(PaddedChunks(k), pointLen) = pointLines

\* a whole record followed by a shorter run of 0xFF: the record is returned, the run is not
C11_Witness ==
    /\ pc = "Parsed"
    /\ chunks = <<<<1, 1, Padding>>>>
    /\ pointLen = 2
    /\ pointLines = <<<<1, 1>>>>

\* C12: a payload of whole records, none of them made of 0xFF only, split in two
\* chunks at any position parses to the same record list as the payload in one chunk.
C12_SplitInvariant ==
    LET payload == chunks[1] \o chunks[2]
    IN  (/\ pc = "Parsed"
         /\ Len(chunks) = 2
         /\ Len(payload) % pointLen = 0
         /\ \A k \in 1..Len(Slices(payload, pointLen)) :
                ~OnlyPadding(Slices(payload, pointLen)[k]))
        => pointLines = parseChunks(<<payload>>, pointLen)

(***************************************************************************)
(* Claims about makeChunks (SpecMake).                                     *)
(***************************************************************************)
\* the payload field of a frame
FramePayload(f) == SubSeq(f, 4, Len(f) - 1)

\* the k-th 1024 bytes of data followed by 0xFF without end
PaddedSlice(k) ==
    [i \in 1..ChunkSize |->
        IF (k - 1) * ChunkSize + i <= Len(data) THEN data[(k - 1) * ChunkSize + i]
        ELSE Padding]

\* C13: for non-empty data makeChunks returns ceil(len(data)/1024) frames with
\* payloads of 1024 bytes whose concatenation is data followed by fewer than 1024
\* bytes, all 0xFF (so that only the last payload holds padding).
C13_ChunkPartition ==
    (pc = "Made" /\ data # <<>>) =>
        /\ result.kind = "return"
        /\ LET frames == result.value
               n == Len(frames)
           IN  /\ n = (Len(data) + ChunkSize - 1) \div ChunkSize
               /\ n * ChunkSize - Len(data) < ChunkSize
               /\ \A k \in 1..n : FramePayload(frames[k]) = PaddedSlice(k)

\* C14: every frame makeChunks returns is 0x02, the sequence byte k of the k-th
\* frame, the complement 0xFF - k, 1024 payload bytes and one checksum byte, the
\* sum of the payload bytes mod 256.
C14_FrameLayout ==
    (pc = "Made" /\ result.kind = "return") =>
        \A k \in 1..Len(result.value) :
            LET f == result.value[k]
            IN  /\ Len(f) = 3 + ChunkSize + 1
                /\ f[1] = 2
                /\ f[2] = k
                /\ f[3] = 255 - k
                /\ f[2] \in Byte /\ f[3] \in Byte
                /\ f[Len(f)] \in Byte
                /\ (sum(FramePayload(f)) - f[Len(f)]) % 256 = 0

\* a payload of one chunk and one byte: two frames, the second with sequence byte 2
\* and a padded payload whose bytes sum to more than 255
C14_Witness ==
    /\ pc = "Made"
    /\ Len(data) = ChunkSize + 1
    /\ result.kind = "return"
    /\ Len(result.value) = 2
    /\ result.value[2][2] = 2
    /\ sum(FramePayload(result.value[2])) > 255

(***************************************************************************)
(* Claims about sendData (SpecSend).                                       *)
(***************************************************************************)
EotWrite == [op |-> "write", data |-> <<EOT>>]
AckRead == [op |-> "read", data |-> <<ACK>>]
NakRead == [op |-> "read", data |-> <<NAK>>]
TimedOutRead == [op |-> "read", data |-> <<>>]

\* the write that follows position i of the log, and the one that precedes it
NextWrite(i) == CHOOSE k \in WritesOf(log) : k > i /\ \A m \in WritesOf(log) : m > i => k <= m
WriteBefore(j) == CHOOSE k \in WritesOf(log) : k < j /\ \A m \in WritesOf(log) : m < j => m <= k

\* the reads of 0x06 and of 0x15 that answer the write at position i
AcksOf(i) == {j \in (i + 1)..Len(log) : log[j] = AckRead /\ WriteBefore(j) = i}
NaksOf(i) == {j \in (i + 1)..Len(log) : log[j] = NakRead /\ WriteBefore(j) = i}

\* what sendData writes once the frame at position m of dataChunks is acknowledged
Successor(m) == IF m < Len(dataChunks) THEN dataChunks[m + 1] ELSE <<EOT>>

\* C15: in sendData a 0x15 read for a chunk makes the next write the identical frame,
\* a 0x06 makes it the next frame (the end of transmission byte after the last), and
\* a frame answered by n times 0x15 and then 0x06 has been written n + 1 times.
C15_NackResends ==
    \A i \in FrameWrites(log) :
        LET m == log[i].data[2]
            same == {w \in FrameWrites(log) : log[w] = log[i]}
        IN  /\ log[i].data = dataChunks[m]
            /\ (\E k \in WritesOf(log) : k > i) =>
                  /\ Cardinality(AcksOf(i) \cup NaksOf(i)) = 1
                  /\ NaksOf(i) # {} => log[NextWrite(i)] = log[i]
                  /\ AcksOf(i) # {} => log[NextWrite(i)].data = Successor(m)
            /\ (\E w \in same : AcksOf(w) # {}) =>
                  Cardinality(same) = Cardinality({w \in same : NaksOf(w) # {}}) + 1

\* one chunk answered by 0x15, 0x15, 0x06: the frame written three times
C15_Witness ==
    /\ pc = "AwaitEot"
    /\ Cardinality(FrameWrites(log)) = 3
    /\ \A i \in FrameWrites(log) : log[i].data = dataChunks[1]
    /\ Cardinality({i \in FrameWrites(log) : NaksOf(i) # {}}) = 2

\* C16: no chunk frame is written before a 0x06 or 0x15 has been read, frame k + 1 is
\* written only after a 0x06 read in answer to frame k, and the end of transmission
\* byte only after a 0x06 read in answer to the last frame.
C16_StopAndWait ==
    /\ \A i \in FrameWrites(log) :
           /\ \E j \in 1..(i - 1) : log[j] \in {AckRead, NakRead}
           /\ log[i].data[2] > 1 =>
                 \E w \in FrameWrites(log) :
                     /\ w < i
                     /\ log[w].data = dataChunks[log[i].data[2] - 1]
                     /\ \E j \in AcksOf(w) : j < i
    /\ \A i \in WritesOf(log) :
           log[i] = EotWrite =>
               \E w \in FrameWrites(log) :
                   /\ w < i
                   /\ log[w].data = dataChunks[Len(dataChunks)]
                   /\ \E j \in AcksOf(w) : j < i

\* a payload of two chunks sent to the end
C16_Witness ==
    /\ pc = "Idle"
    /\ result = Returned(<<>>)
    /\ Len(dataChunks) = 2
    /\ \E i \in WritesOf(log) : log[i] = EotWrite

\* C17: a wait in which neither 0x06 nor 0x15 arrives in time ends sendData with
\* TimeoutError raised to its caller, and nothing is read or written after it.
C17_TimeoutReported ==
    \A i \in 1..Len(log) :
        log[i] = TimedOutRead =>
            /\ i = Len(log)
            /\ pc = "Idle"
            /\ result = Raised("TimeoutError")

\* C18: sendData writes the end of transmission byte once, after the last chunk was
\* acknowledged, and unless 0x06 answers it (0x15, or nothing in time) sendData fails
\* with the Error "End of transfer was not acknowledged".
C18_EndOfTransfer ==
    LET eots == {i \in WritesOf(log) : log[i] = EotWrite}
    IN  /\ Cardinality(eots) <= 1
        /\ \A i \in eots :
               /\ pc \in {"AwaitEot", "Idle"}
               /\ pc = "AwaitEot" => i = Len(log) /\ result = None
               /\ pc = "Idle" =>
                     IF AcksOf(i) # {} THEN result = Returned(<<>>)
                     ELSE result = Raised("Error")

\* C19: every exit of sendData after the switch to 115200 is made with the baud rate
\* back at 9600, the change being the last thing done on the port.
C19_BaudRestored ==
    (/\ pc = "Idle"
     /\ result # None
     /\ \E i \in 1..Len(log) : log[i] = BaudChange(HighBaudrate))
        => /\ baud = InitialBaudrate
           /\ log[Len(log)] = BaudChange(InitialBaudrate)


(***************************************************************************)
(* The record codecs.  Python numbers carry their type: struct.pack takes  *)
(* an int only, and the decoders produce floats.  A float is kept as the   *)
(* integer it was made from: PyFloat(i) is the float i * 1e-5 (i / 1e5).    *)
(***************************************************************************)

PyFloat(i) == [type |-> "float", v |-> i]

\* struct.pack of one value that is in range, little endian, 2 and 4 bytes
pack16(n) == <<n % 256, (n \div 256) % 256>>

pack32(n) == <<n % 256, (n \div 256) % 256, (n \div 65536) % 256, (n \div 16777216) % 256>>

\* struct.unpack "<H", "<I" (values below 2^31) and "<i"
unpack16(b) == b[1] + 256 * b[2]

unpack32(b) == b[1] + 256 * b[2] + 65536 * b[3] + 16777216 * b[4]

unpack32s(b) ==
    b[1] + 256 * b[2] + 65536 * b[3] + 16777216 * (IF b[4] >= 128 THEN b[4] - 256 ELSE b[4])

\* s[lo:hi] for 0 <= lo, 0 <= hi
PySlice(s, lo, hi) == SubSeq(s, lo + 1, Min(hi, Len(s)))

\* b"".join(parts)
RECURSIVE join(_)
join(parts) == IF parts = <<>> THEN <<>> ELSE Head(parts) \o join(Tail(parts))

\* b"\x00" * n
Zeros(n) == [i \in 1..n |-> 0]

(***************************************************************************)
(* Strings are sequences of code points.  c.encode("utf-16-le") gives two  *)
(* bytes for a character of the basic plane and a surrogate pair, four     *)
(* bytes, for any other; decoding one two-byte piece fails on a surrogate. *)
(***************************************************************************)
utf16le(c) ==
    IF c < 65536 THEN pack16(c)
    ELSE LET v == c - 65536
         IN  pack16(55296 + (v \div 1024)) \o pack16(56320 + (v % 1024))

decodeUtf16le(b) ==
    IF Len(b) < 2 THEN Raised("UnicodeDecodeError")
    ELSE IF unpack16(b) \in 55296..57343 THEN Raised("UnicodeDecodeError")
    ELSE Returned(unpack16(b))

\* the entries of charBitmapDict for the characters NUL, a, b and ?
QuestionMark == 63

charBitmapDict ==
    (<<0, 0>> :> <<0, 0, 0, 0, 0, 0, 0, 0, 0, 0, 0, 0, 0, 0, 0, 0, 0, 0, 0, 0, 0, 0>>)
    @@ (<<97, 0>> :> <<0, 128, 208, 80, 80, 240, 224, 0, 0, 0, 0, 0, 1, 3, 2, 2, 3, 3, 0, 0, 0, 0>>)
    @@ (<<98, 0>> :> <<0, 254, 254, 16, 16, 240, 224, 0, 0, 0, 0, 0, 3, 3, 2, 2, 3, 1, 0, 0, 0, 0>>)
    @@ (<<63, 0>> :> <<0, 4, 100, 116, 60, 24, 0, 0, 0, 0, 0, 0, 0, 3, 3, 0, 0, 0, 0, 0, 0, 0>>)

(***************************************************************************)
(* RoutePoint.                                                             *)
(***************************************************************************)
symbolDict ==
    [k \in 0..8 |->
        <<"none", "straight ahead", "keep left", "keep right", "left", "backward",
          "right", "left rearward", "right rearward">>[k + 1]]

\* reversedDict(self.symbolDict)[name], "none" on a KeyError
symbolCode(name) ==
    IF \E k \in DOMAIN symbolDict : symbolDict[k] = name
    THEN CHOOSE k \in DOMAIN symbolDict : symbolDict[k] = name
    ELSE CHOOSE k \in DOMAIN symbolDict : symbolDict[k] = "none"

MaxNameLen == 32

RoutePoint_fromGpxValues_NoChop(routePointDict) ==
    [name |-> routePointDict.name,
     symbol |-> symbolCode(routePointDict.symbol),
     lat |-> routePointDict.lat,
     lon |-> routePointDict.lon,
     elevation |-> routePointDict.elevation]

RoutePoint_fromGpxValues(routePointDict) ==
    [name |-> PySlice(routePointDict.name, 0, MaxNameLen),
     symbol |-> symbolCode(routePointDict.symbol),
     lat |-> routePointDict.lat,
     lon |-> routePointDict.lon,
     elevation |-> routePointDict.elevation]

\* chartable.index(c)
index(chartable, c) ==
    (CHOOSE i \in 1..Len(chartable) :
        /\ chartable[i] = c
        /\ \A j \in 1..(i - 1) : chartable[j] # c) - 1

NameBytes == 64

RoutePoint_toBin(p, chartable) ==
    IF p.lat.type # "int" \/ p.lon.type # "int" \/ p.symbol < 0
    THEN Raised("struct.error")
    ELSE IF \E i \in 1..Len(p.name) : \A j \in 1..Len(chartable) : chartable[j] # p.name[i]
    THEN Raised("ValueError")
    ELSE LET lat == pack32(p.lat.v)
             lon == pack32(p.lon.v)
             symbol == pack32(p.symbol)
             name == join([i \in 1..Len(p.name) |-> pack16(index(chartable, p.name[i]))])
             padded == name \o Zeros(NameBytes - Len(name))
         IN  Returned(padded \o symbol \o lat \o lon)

PointRecordLen == 76

RoutePoint_fromBin(d, chartable) ==
    IF Len(d) < NameBytes THEN Raised("struct.error")
    ELSE LET chartableInds == [k \in 1..32 |-> unpack16(SubSeq(d, 2 * k - 1, 2 * k))]
             used == SelectSeq(chartableInds, LAMBDA ind : ind # 0)
         IN  IF \E k \in 1..Len(used) : used[k] >= Len(chartable) THEN Raised("IndexError")
             ELSE IF Len(d) < PointRecordLen THEN Raised("struct.error")
             ELSE Returned([name |-> [k \in 1..Len(used) |-> chartable[used[k] + 1]],
                            symbol |-> unpack16(SubSeq(d, 65, 66)),
                            lat |-> PyFloat(unpack32s(SubSeq(d, 69, 72))),
                            lon |-> PyFloat(unpack32s(SubSeq(d, 73, 76))),
                            elevation |-> PyInt(0)])

(***************************************************************************)
(* Route.                                                                  *)
(***************************************************************************)
\* the characters of all point names, in order
RECURSIVE namesOf(_)
namesOf(pts) == IF pts = <<>> THEN <<>> ELSE Head(pts).name \o namesOf(Tail(pts))

\* the loop of makeOutCharTable over the characters cs
RECURSIVE charLoop(_, _)
RECURSIVE charLoop_KeepDuplicates(_, _)
charLoop_KeepDuplicates(chartable, cs) ==
    IF cs = <<>> THEN chartable
    ELSE charLoop_KeepDuplicates(Append(chartable, Head(cs)), Tail(cs))

charLoop(chartable, cs) ==
    IF cs = <<>> THEN chartable
    ELSE IF \E i \in 1..Len(chartable) : chartable[i] = Head(cs)
    THEN charLoop(chartable, Tail(cs))
    ELSE charLoop(Append(chartable, Head(cs)), Tail(cs))

charBitmaps_SkipNull(chartable) ==
    [i \in 1..(Len(chartable) - 1) |->
        IF utf16le(chartable[i + 1]) \in DOMAIN charBitmapDict
        THEN charBitmapDict[utf16le(chartable[i + 1])]
        ELSE charBitmapDict[utf16le(QuestionMark)]]

charBitmaps(chartable) ==
    [i \in 1..Len(chartable) |->
        IF utf16le(chartable[i]) \in DOMAIN charBitmapDict
        THEN charBitmapDict[utf16le(chartable[i])]
        ELSE charBitmapDict[utf16le(QuestionMark)]]

makeOutCharTable(pts) ==
    LET chartable == charLoop(<<0>>, namesOf(pts))
    IN  [chartable |-> chartable, charBitmapsData |-> join(charBitmaps(chartable))]

makeInCharTable(d) ==
    LET choppedCharTable == Slices(d, 2)
        chartable == [i \in 1..Len(choppedCharTable) |-> decodeUtf16le(choppedCharTable[i])]
    IN  IF \E i \in 1..Len(chartable) : chartable[i].kind # "return"
        THEN Raised("UnicodeDecodeError")
        ELSE Returned([i \in 1..Len(chartable) |-> chartable[i].value])

HeaderLen == 20

\* struct.pack("<h", -(sum(headerPre)&0xffff)); the sum of 18 bytes is below 32768
headerChecksum(headerPre) == pack16(-(sum(headerPre) % 65536))

\* the section offsets written into the header
offsets_FromZero(pointDataBin, charTableBin, charBitmapsDataBin) ==
    [charTableOffset |-> Len(pointDataBin),
     charBitmapsDataOffset |-> Len(pointDataBin) + Len(charTableBin),
     eofOffset |-> Len(pointDataBin) + Len(charTableBin) + Len(charBitmapsDataBin)]

offsets(pointDataBin, charTableBin, charBitmapsDataBin) ==
    [charTableOffset |-> HeaderLen + Len(pointDataBin),
     charBitmapsDataOffset |-> HeaderLen + Len(pointDataBin) + Len(charTableBin),
     eofOffset |-> HeaderLen + Len(pointDataBin) + Len(charTableBin)
                   + Len(charBitmapsDataBin)]

\* the first exception among the outcomes rs, if any
FirstRaised(rs) ==
    rs[CHOOSE k \in 1..Len(rs) :
           /\ rs[k].kind # "return"
           /\ \A j \in 1..(k - 1) : rs[j].kind = "return"]

Route_toBin(pts) ==
    LET out == makeOutCharTable(pts)
        records == [i \in 1..Len(pts) |-> RoutePoint_toBin(pts[i], out.chartable)]
    IN  IF \E i \in 1..Len(pts) : records[i].kind # "return"
        THEN FirstRaised(records)
        ELSE LET pointDataBin == join([i \in 1..Len(pts) |-> records[i].value])
                 charTableBin == join([i \in 1..Len(out.chartable) |-> utf16le(out.chartable[i])])
                 off == offsets(pointDataBin, charTableBin, out.charBitmapsData)
                 headerPre == pack16(1) \o pack16(Len(pts)) \o pack32(off.charTableOffset)
                              \o pack32(off.charBitmapsDataOffset) \o pack32(off.eofOffset)
                              \o <<0, 0>>
                 whole == headerPre \o headerChecksum(headerPre) \o pointDataBin
                          \o charTableBin \o out.charBitmapsData
             IN  Returned(SubSeq(whole, 1, Len(whole)))

\* headerChecksum == expectedHeaderChecksum
checksumMatches_Always(hdr) == TRUE

checksumMatches(hdr) == PySlice(hdr, 18, 20) = headerChecksum(PySlice(hdr, 0, 18))

parseBin(bin) ==
    LET hdr == PySlice(bin, 0, HeaderLen)
    IN  IF Len(hdr) < 16 THEN Raised("struct.error")
        ELSE IF ~checksumMatches(hdr) THEN Raised("BadChecksum")
        ELSE
        LET numOfPoints == unpack16(SubSeq(hdr, 3, 4))
            charTableOffset == unpack32(SubSeq(hdr, 5, 8))
            charBitmapsDataOffset == unpack32(SubSeq(hdr, 9, 12))
            pointArea == PySlice(bin, HeaderLen, charTableOffset)
            pointData == [k \in 1..numOfPoints |->
                             PySlice(pointArea, PointRecordLen * (k - 1), PointRecordLen * k)]
            chartable == makeInCharTable(PySlice(bin, charTableOffset, charBitmapsDataOffset))
            pts == [k \in 1..numOfPoints |-> RoutePoint_fromBin(pointData[k], chartable.value)]
        IN  IF chartable.kind # "return" THEN chartable
            ELSE IF \E k \in 1..numOfPoints : pts[k].kind # "return"
            THEN FirstRaised(pts)
            ELSE Returned([k \in 1..numOfPoints |-> pts[k].value])

(***************************************************************************)
(* The route points a GPX file can hold, as Gpx.parseRoutePoints hands     *)
(* them over: a non-empty name, a symbol name, latitude and longitude as   *)
(* integers in units of 1e-5 degree.  The names are "ab", "ba", one with a *)
(* character that has no glyph next to the question mark, one outside the  *)
(* basic plane, and one of 33 characters.                                  *)
(***************************************************************************)
MaxPoints == 2       \* most points of a route drawn

LongName == [i \in 1..33 |-> IF i < 33 THEN 97 ELSE 98]

RoutePointDicts ==
    { [name |-> <<97, 98>>, symbol |-> "left", lat |-> PyInt(4940000), lon |-> PyInt(840000),
       elevation |-> PyInt(0)],
      [name |-> <<98, 97>>, symbol |-> "right rearward", lat |-> PyInt(-1),
       lon |-> PyInt(-18000000), elevation |-> PyInt(0)],
      [name |-> <<969, 63>>, symbol |-> "none", lat |-> PyInt(0), lon |-> PyInt(0),
       elevation |-> PyInt(0)],
      [name |-> <<128512>>, symbol |-> "left", lat |-> PyInt(1), lon |-> PyInt(1),
       elevation |-> PyInt(0)],
      [name |-> SubSeq(LongName, 1, 33), symbol |-> "roundabout", lat |-> PyInt(-4940000),
       lon |-> PyInt(17999999), elevation |-> PyInt(0)] }

RoutePointLists == UNION {[1..n -> RoutePointDicts] : n \in 0..MaxPoints}

\* the values a header byte can take in place of b
AlteredBytes(b) == {(b + 1) % 256, 255 - b}

InitRoute == Init

\* Route().fromGpx(filename), the file holding routePoints
Route_fromGpx(routePoints) ==
    /\ pc = "Idle"
    /\ pc' = "Built"
    /\ gpxValues' = routePoints
    /\ points' = [i \in 1..Len(routePoints) |-> RoutePoint_fromGpxValues(routePoints[i])]
    /\ UNCHANGED <<result, binData, poi, minTimeDiff, tz>>
    /\ UNCHANGED <<connVars, configVars>>

\* route.toBin()
Route_ToBin ==
    /\ pc = "Built"
    /\ LET out == Route_toBin(points)
       IN  /\ result' = out
           /\ binData' = IF out.kind = "return" THEN out.value ELSE binData
           /\ pc' = IF out.kind = "return" THEN "Encoded" ELSE "Idle"
    /\ UNCHANGED <<points, poi, minTimeDiff, tz, gpxValues>>
    /\ UNCHANGED <<connVars, configVars>>

\* one byte of the header of the stored route changes before it is read back
HeaderNoise(i, v) ==
    /\ pc = "Encoded"
    /\ i \in 1..HeaderLen
    /\ v \in AlteredBytes(binData[i])
    /\ binData' = [binData EXCEPT ![i] = v]
    /\ pc' = "Altered"
    /\ UNCHANGED <<result, points, poi, minTimeDiff, tz, gpxValues>>
    /\ UNCHANGED <<connVars, configVars>>

\* Route().fromBin(binData, dumpRaw)
Route_FromBin ==
    /\ pc \in {"Encoded", "Altered"}
    /\ result' = parseBin(binData)
    /\ pc' = "Decoded"
    /\ UNCHANGED <<points, binData, poi, minTimeDiff, tz, gpxValues>>
    /\ UNCHANGED <<connVars, configVars>>

NextRoute ==
    \/ \E routePoints \in RoutePointLists : Route_fromGpx(routePoints)
    \/ Route_ToBin
    \/ \E i \in 1..HeaderLen, v \in Byte : HeaderNoise(i, v)
    \/ Route_FromBin

SpecRoute == InitRoute /\ [][NextRoute]_vars


(***************************************************************************)
(* Claims about the route codec.                                           *)
(***************************************************************************)
\* the route as encoded, before any byte of it changed
Encoded == Route_toBin(points).value

\* the header of the route at hand differs from the encoded one
HeaderAltered == \E i \in 1..HeaderLen : binData[i] # Encoded[i]

\* a decoded coordinate is the same place as the one encoded
SameCoordinate(decoded, original) == decoded.v = original.v

\* C21: for a route whose names have at most 32 code units, decoding the
\* encoded route gives as many points, in the same order, each with the name,
\* the symbol, the latitude and the longitude of the original, and the encoded
\* header passes the decoder's checksum validation.
C21_RoundTrip ==
    (pc = "Decoded" /\ binData = Encoded) =>
        /\ result.kind = "return"
        /\ Len(result.value) = Len(points)
        /\ \A i \in 1..Len(points) :
               /\ result.value[i].name = points[i].name
               /\ result.value[i].symbol = points[i].symbol
               /\ SameCoordinate(result.value[i].lat, points[i].lat)
               /\ SameCoordinate(result.value[i].lon, points[i].lon)

\* the little-endian 16-bit two's complement of minus the sum of s
NegatedSum16(s) ==
    LET total == SumRange(s, 1, Len(s)) % 65536
        word == (65536 - total) % 65536
    IN  <<word % 256, word \div 256>>

\* C22: decoding fails with BadChecksum whenever header bytes 18-19 are not
\* the 16-bit two's complement of minus the sum of header bytes 0..17; so a
\* valid route with any single header byte changed fails with BadChecksum, and
\* no points are produced.
C22_HeaderChecksum ==
    pc = "Decoded" =>
        /\ SubSeq(binData, 19, 20) # NegatedSum16(SubSeq(binData, 1, 18))
               => result = Raised("BadChecksum")
        /\ HeaderAltered => result = Raised("BadChecksum")

\* a route whose char-table offset was changed is refused
C22_Witness ==
    /\ pc = "Decoded"
    /\ binData[5] # Encoded[5]
    /\ Len(points) = 2
    /\ result = Raised("BadChecksum")

\* the char table and the glyph section of the route at hand
CharTable == makeOutCharTable(points).chartable
CharTableBytes == join([i \in 1..Len(CharTable) |-> utf16le(CharTable[i])])
GlyphBytes == makeOutCharTable(points).charBitmapsData

\* the record of point i in the encoded route
Record(i) == PySlice(binData, HeaderLen + PointRecordLen * (i - 1), HeaderLen + PointRecordLen * i)

\* the little-endian field of w bytes at offset off of the header
RECURSIVE Field(_, _)
Field(off, w) == IF w = 0 THEN 0 ELSE binData[off + 1] + 256 * Field(off + 1, w - 1)

\* C23: the encoder emits header, point records, char table and glyph section
\* in this order; the header holds the point count n, the char-table offset
\* 20 + 76 n, the glyph offset (char-table offset plus the char table's length)
\* and the end offset (glyph offset plus the glyph section's length), which is
\* the length of the whole output.
C23_SectionLayout ==
    pc = "Encoded" =>
        LET n == Len(points)
            charTableOffset == Field(4, 4)
            glyphOffset == Field(8, 4)
            eofOffset == Field(12, 4)
        IN  /\ Field(2, 2) = n
            /\ charTableOffset = 20 + 76 * n
            /\ glyphOffset = charTableOffset + Len(CharTableBytes)
            /\ eofOffset = glyphOffset + Len(GlyphBytes)
            /\ eofOffset = Len(binData)
            /\ PySlice(binData, 20, charTableOffset)
                   = join([i \in 1..n |-> RoutePoint_toBin(points[i], CharTable).value])
            /\ PySlice(binData, charTableOffset, glyphOffset) = CharTableBytes
            /\ PySlice(binData, glyphOffset, eofOffset) = GlyphBytes

\* two points, and a char table entry of four bytes
C23_Witness ==
    /\ pc = "Encoded"
    /\ Len(points) = 2
    /\ Len(CharTableBytes) > 2 * Len(CharTable)

\* the characters of all names, in order
AllChars == namesOf(points)

\* where c comes first in the names
FirstSeen(c) == CHOOSE k \in 1..Len(AllChars) :
                    AllChars[k] = c /\ \A j \in 1..(k - 1) : AllChars[j] # c

\* the index stored in name slot k of point i
Slot(i, k) == Record(i)[2 * k - 1] + 256 * Record(i)[2 * k]

\* C24: the char table built on encode starts with the null entry at index 0,
\* followed by the distinct characters of all names in first-seen order without
\* duplicates; every character of every encoded name is stored as an index of
\* at least 1, so index 0 is never referenced by a name.
C24_CharTable ==
    pc = "Encoded" =>
        /\ CharTable[1] = 0
        /\ \A i, j \in 1..Len(CharTable) : i # j => CharTable[i] # CharTable[j]
        /\ {CharTable[i] : i \in 2..Len(CharTable)} = {AllChars[k] : k \in 1..Len(AllChars)}
        /\ \A i, j \in 2..Len(CharTable) :
               i < j => FirstSeen(CharTable[i]) < FirstSeen(CharTable[j])
        /\ \A i \in 1..Len(points) : \A k \in 1..Len(points[i].name) :
               /\ Slot(i, k) >= 1
               /\ Slot(i, k) < Len(CharTable)
               /\ CharTable[Slot(i, k) + 1] = points[i].name[k]

\* two names sharing their characters, in different order
C24_Witness ==
    /\ pc = "Encoded"
    /\ Len(points) = 2
    /\ points[1].name = <<97, 98>>
    /\ points[2].name = <<98, 97>>

\* the glyph of c: the built-in one, or that of the question mark
Glyph(c) ==
    IF c = 0 THEN Zeros(22)
    ELSE IF c = 97 THEN charBitmapDict[<<97, 0>>]
    ELSE IF c = 98 THEN charBitmapDict[<<98, 0>>]
    ELSE charBitmapDict[<<63, 0>>]

\* the glyph section read from the encoded route
GlyphSection == PySlice(binData, Field(8, 4), Field(12, 4))

\* C25 as stated: the glyph section holds 22 bytes per char-table entry beyond
\* the null entry, each the glyph of the character or that of '?'; its length
\* is 22 times the number of non-null entries.
C25_GlyphPerNonNullEntry ==
    pc = "Encoded" =>
        /\ Len(GlyphSection) = 22 * (Len(CharTable) - 1)
        /\ \A i \in 2..Len(CharTable) :
               PySlice(GlyphSection, 22 * (i - 2), 22 * (i - 1)) = Glyph(CharTable[i])

\* C25 amended: the glyph section holds 22 bytes per char-table entry, the null
\* entry included (its glyph is blank), each the glyph of the character or that
\* of '?' when it has none; its length is 22 times the number of entries.
C25_GlyphPerEntry ==
    pc = "Encoded" =>
        /\ Len(GlyphSection) = 22 * Len(CharTable)
        /\ \A i \in 1..Len(CharTable) :
               PySlice(GlyphSection, 22 * (i - 1), 22 * i) = Glyph(CharTable[i])

\* a route with a character that has no glyph, and one that has
C25_Witness ==
    /\ pc = "Encoded"
    /\ \E i \in 2..Len(CharTable) : CharTable[i] = 969
    /\ \E i \in 2..Len(CharTable) : CharTable[i] = 97

\* the little-endian 32-bit two's complement of n
TwosComplement32(n) ==
    LET low == n % 65536
        high == ((n - low) \div 65536) % 65536
    IN  <<low % 256, low \div 256, high % 256, high \div 256>>

Digit(d) == 48 + d

\* "{:0>2d}".format(n) for 0 <= n <= 255
Format02d(n) ==
    IF n < 100 THEN <<Digit(n \div 10), Digit(n % 10)>>
    ELSE <<Digit(n \div 100), Digit((n \div 10) % 10), Digit(n % 10)>>

\* "{:4d}".format(n) and %Y for 1000 <= n <= 9999
Format4d(n) ==
    <<Digit(n \div 1000), Digit((n \div 100) % 10), Digit((n \div 10) % 10), Digit(n % 10)>>

\* "{:4d}-{:0>2d}-{:0>2d}T{:0>2d}:{:0>2d}:{:0>2d}Z".format(...) and the same as strftime
formatTime(f) ==
    Format4d(f.year) \o <<45>> \o Format02d(f.month) \o <<45>> \o Format02d(f.day) \o <<84>>
    \o Format02d(f.hour) \o <<58>> \o Format02d(f.minute) \o <<58>> \o Format02d(f.second)
    \o <<90>>

isLeap(y) == (y % 4 = 0 /\ y % 100 # 0) \/ y % 400 = 0

daysInMonth(y, m) ==
    IF m = 2 THEN (IF isLeap(y) THEN 29 ELSE 28)
    ELSE IF m \in {4, 6, 9, 11} THEN 30 ELSE 31

\* the number written by the digits s
RECURSIVE number(_)
number(s) == IF s = <<>> THEN 0 ELSE 10 * number(SubSeq(s, 1, Len(s) - 1)) + (s[Len(s)] - 48)

\* strptime(string, "%Y-%m-%dT%H:%M:%SZ"); datetime takes seconds up to 59, time up to 61
strptime(string, maxSecond) ==
    IF \/ Len(string) # 20
       \/ <<string[5], string[8], string[11], string[14], string[17], string[20]>>
              # <<45, 45, 84, 58, 58, 90>>
       \/ \E i \in (1..19) \ {5, 8, 11, 14, 17} : string[i] \notin 48..57
    THEN Raised("ValueError")
    ELSE LET f == [year |-> number(SubSeq(string, 1, 4)),
                   month |-> number(SubSeq(string, 6, 7)),
                   day |-> number(SubSeq(string, 9, 10)),
                   hour |-> number(SubSeq(string, 12, 13)),
                   minute |-> number(SubSeq(string, 15, 16)),
                   second |-> number(SubSeq(string, 18, 19))]
         IN  IF /\ f.year >= 1
                /\ f.month \in 1..12
                /\ f.day \in 1..daysInMonth(f.year, f.month)
                /\ f.hour <= 23
                /\ f.minute <= 59
                /\ f.second <= maxSecond
             THEN Returned(f)
             ELSE Raised("ValueError")

nextDay(f) ==
    IF f.day < daysInMonth(f.year, f.month) THEN [f EXCEPT !.day = f.day + 1]
    ELSE IF f.month < 12 THEN [f EXCEPT !.day = 1, !.month = f.month + 1]
    ELSE [f EXCEPT !.day = 1, !.month = 1, !.year = f.year + 1]

previousDay(f) ==
    IF f.day > 1 THEN [f EXCEPT !.day = f.day - 1]
    ELSE IF f.month > 1
    THEN [f EXCEPT !.day = daysInMonth(f.year, f.month - 1), !.month = f.month - 1]
    ELSE [f EXCEPT !.day = 31, !.month = 12, !.year = f.year - 1]

\* .replace(tzinfo=utc).astimezone(tz=None) in a zone zone hours ahead of UTC
astimezone(f, zone) ==
    IF f.hour + zone >= 24 THEN [nextDay(f) EXCEPT !.hour = f.hour + zone - 24]
    ELSE IF f.hour + zone < 0 THEN [previousDay(f) EXCEPT !.hour = f.hour + zone + 24]
    ELSE [f EXCEPT !.hour = f.hour + zone]

Poi_fromBin(line, zone) ==
    IF Len(line) < 16 THEN Raised("struct.error")
    ELSE LET rawTimeString ==
                 formatTime([year |-> 1900 + line[1], month |-> line[2], day |-> line[3],
                             hour |-> line[4], minute |-> line[5], second |-> line[6]])
             parsed == strptime(rawTimeString, 59)
         IN  IF parsed.kind # "return" THEN parsed
             ELSE Returned([raw |-> line,
                            lat |-> PyFloat(unpack32s(SubSeq(line, 9, 12))),
                            lon |-> PyFloat(unpack32s(SubSeq(line, 13, 16))),
                            symbol |-> line[7],
                            datetime |-> [local |-> astimezone(parsed.value, zone),
                                          utcoffset |-> zone],
                            timeString |-> formatTime(astimezone(parsed.value, zone))])

\* a Poi built from GPX values has no raw record before toBin stores one
Poi_fromGpxValues(poiDict) ==
    [raw |-> <<>>, lat |-> poiDict.lat, lon |-> poiDict.lon, symbol |-> poiDict.symbol,
     timeString |-> poiDict.timeString]

Reserved == 160

\* the six date and time bytes
timeBytes(parsedTime) ==
    <<parsedTime.year - 1900, parsedTime.month, parsedTime.day, parsedTime.hour,
      parsedTime.minute, parsedTime.second>>

Poi_toBin(p) ==
    IF p.lat.type # "int" \/ p.lon.type # "int" THEN Raised("struct.error")
    ELSE LET parsedTime == strptime(p.timeString, 61)
         IN  IF parsedTime.kind # "return" THEN parsedTime
             ELSE IF parsedTime.value.year - 1900 \notin Byte \/ p.symbol \notin Byte
             THEN Raised("struct.error")
             ELSE Returned(timeBytes(parsedTime.value) \o <<p.symbol>> \o <<Reserved>>
                           \o pack32(p.lat.v) \o pack32(p.lon.v))

(***************************************************************************)
(* The POI records a device can hold and the way points a GPX file can     *)
(* hold.  The dates drawn cross a year's end and a leap day under the zone *)
(* shift; three of them are no calendar date or time.                      *)
(***************************************************************************)
TimeZones == {0, 1, -5}

PoiTimes ==
    { <<114, 1, 14, 14, 36, 50>>, <<114, 12, 31, 23, 59, 59>>, <<100, 3, 1, 0, 0, 0>>,
      <<114, 2, 30, 0, 0, 0>>, <<114, 0, 1, 0, 0, 0>>, <<255, 1, 1, 0, 100, 60>> }

PoiSymbols == {0, 7, 255}

PoiPlaces == { <<4940000, 840000>>, <<-1, -18000000>> }

PoiReserved == {Reserved, 0}

PoiLines ==
    { t \o <<s, r>> \o pack32(p[1]) \o pack32(p[2]) :
        t \in PoiTimes, s \in PoiSymbols, r \in PoiReserved, p \in PoiPlaces }

GpxTimes ==
    { [year |-> 2014, month |-> 1, day |-> 14, hour |-> 14, minute |-> 36, second |-> 50],
      [year |-> 2014, month |-> 12, day |-> 31, hour |-> 23, minute |-> 59, second |-> 59],
      [year |-> 2000, month |-> 2, day |-> 29, hour |-> 0, minute |-> 0, second |-> 0] }

PoiDicts ==
    { [lat |-> PyInt(p[1]), lon |-> PyInt(p[2]), symbol |-> s, timeString |-> formatTime(t)] :
        p \in PoiPlaces, s \in PoiSymbols, t \in GpxTimes }

InitPoi ==
    /\ pc = "Idle"
    /\ baud = InitialBaudrate
    /\ log = <<>>
    /\ wire = <<>>
    /\ dataChunks = <<>>
    /\ result = None
    /\ command = <<>>
    /\ checkChecksum = TRUE
    /\ expectedResponse = <<>>
    /\ sentLine = <<>>
    /\ noise = NoNoise
    /\ chunks = <<>>
    /\ pointLen = 1
    /\ pointLines = <<>>
    /\ data = <<>>
    /\ chunkNo = 0
    /\ points = <<>>
    /\ binData = <<>>
    /\ poi = None
    /\ minTimeDiff = 0
    /\ gpxValues = <<>>
    /\ tz \in TimeZones
    /\ deviceConfig = parseDeviceConfig(<<0, 10, 10, 0, 1, 1, 0>>)
    /\ recordConfig = parseRecordConfig(<<1, 0, 5, 0, 0, 0, 0>>)
    /\ calls = <<>>

\* Poi().fromBin(line)
Poi_FromBin(line) ==
    /\ pc = "Idle"
    /\ binData' = line
    /\ gpxValues' = <<>>
    /\ LET out == Poi_fromBin(line, tz)
       IN  /\ result' = out
           /\ poi' = IF out.kind = "return" THEN out.value ELSE None
           /\ pc' = IF out.kind = "return" THEN "PoiDecoded" ELSE "Idle"
    /\ UNCHANGED <<points, minTimeDiff, tz>>
    /\ UNCHANGED <<connVars, configVars>>

\* Poi().fromGpxValues(poiDict)
Poi_FromGpxValues(poiDict) ==
    /\ pc = "Idle"
    /\ gpxValues' = poiDict
    /\ binData' = <<>>
    /\ poi' = Poi_fromGpxValues(poiDict)
    /\ pc' = "PoiBuilt"
    /\ UNCHANGED <<result, points, minTimeDiff, tz>>
    /\ UNCHANGED <<connVars, configVars>>

\* poi.toBin()
Poi_ToBin ==
    /\ pc \in {"PoiDecoded", "PoiBuilt"}
    /\ LET out == Poi_toBin(poi)
       IN  /\ result' = out
           /\ poi' = IF out.kind = "return" THEN [poi EXCEPT !.raw = out.value] ELSE poi
    /\ pc' = "PoiEncoded"
    /\ UNCHANGED <<points, binData, minTimeDiff, tz, gpxValues>>
    /\ UNCHANGED <<connVars, configVars>>

\* Poi().fromBin(raw), raw being what toBin returned
Poi_FromBinAgain ==
    /\ pc = "PoiEncoded"
    /\ result.kind = "return"
    /\ result' = Poi_fromBin(result.value, tz)
    /\ pc' = "PoiRedecoded"
    /\ UNCHANGED <<points, binData, poi, minTimeDiff, tz, gpxValues>>
    /\ UNCHANGED <<connVars, configVars>>

NextPoi ==
    \/ \E line \in PoiLines : Poi_FromBin(line)
    \/ \E poiDict \in PoiDicts : Poi_FromGpxValues(poiDict)
    \/ Poi_ToBin
    \/ Poi_FromBinAgain

SpecPoi == InitPoi /\ [][NextPoi]_vars


(***************************************************************************)
(* Claims about the POI codec.                                             *)
(***************************************************************************)
\* the Poi at hand was decoded from a record of the device
FromDevice == binData # <<>>

\* C27: for any 16-byte POI record, decoding, encoding and decoding again
\* gives the date and time, symbol, latitude and longitude of the first
\* decode; of the re-encoded record only the reserved byte may differ.
C27_PoiRoundTrip ==
    /\ (pc = "PoiEncoded" /\ FromDevice) =>
           /\ result.kind = "return"
           /\ \A i \in (1..16) \ {8} : result.value[i] = binData[i]
    /\ (pc = "PoiRedecoded" /\ FromDevice) =>
           /\ result.kind = "return"
           /\ result.value.datetime = poi.datetime
           /\ result.value.timeString = poi.timeString
           /\ result.value.symbol = poi.symbol
           /\ result.value.lat = poi.lat
           /\ result.value.lon = poi.lon

\* the date and time of the Poi at hand in UTC, as six bytes
UtcBytes ==
    IF FromDevice THEN SubSeq(binData, 1, 6)
    ELSE LET f == strptime(gpxValues.timeString, 59).value
         IN  <<f.year - 1900, f.month, f.day, f.hour, f.minute, f.second>>

\* C28: encoding a Poi inverts the decoder on the wire layout: it always gives
\* exactly 16 bytes, namely year - 1900, month, day, hour, minute and second
\* as UTC, the symbol byte, the reserved byte 0xA0, and latitude and longitude
\* as little-endian signed 32-bit integers in units of 1e-5 degree.
C28_EncodeLayout ==
    pc = "PoiEncoded" =>
        /\ result.kind = "return"
        /\ Len(result.value) = 16
        /\ SubSeq(result.value, 1, 6) = UtcBytes
        /\ result.value[7] = poi.symbol
        /\ result.value[8] = 160
        /\ SubSeq(result.value, 9, 12) = TwosComplement32(poi.lat.v)
        /\ SubSeq(result.value, 13, 16) = TwosComplement32(poi.lon.v)


(***************************************************************************)
(* TrackPoint and Track.  A timestamp is the sum of two 32-bit numbers and *)
(* is kept exactly, as Python's float keeps it, in two parts: the value is *)
(* 65536 * hi + lo with lo in 0..65535.                                    *)
(***************************************************************************)
Wide(n) == [hi |-> n \div 65536, lo |-> n % 65536]

WideAdd(a, b) ==
    [hi |-> a.hi + b.hi + ((a.lo + b.lo) \div 65536), lo |-> (a.lo + b.lo) % 65536]

WideSub(a, b) ==
    [hi |-> a.hi - b.hi + ((a.lo - b.lo) \div 65536), lo |-> (a.lo - b.lo) % 65536]

WideLess(a, b) == a.hi < b.hi \/ (a.hi = b.hi /\ a.lo < b.lo)

\* time.mktime of 2014-01-14 14:36:50 read as local time, zone hours ahead of UTC
EpochUtc == 1389710210

timestampOffset(zone) == EpochUtc - 3600 * zone

\* float(i)
float(i) == [type |-> "float", whole |-> i]

\* self.timestampOffset + self.rawTimestamp
timestampOf_RawOnly(offset, raw) == Wide(raw)

timestampOf(offset, raw) == WideAdd(Wide(offset), Wide(raw))

\* TrackPoint(line); the coordinate transformation is left to its library
initData(line, zone) ==
    IF Len(line) < 16 THEN Raised("struct.error")
    ELSE LET rawTimestamp == unpack32s(SubSeq(line, 1, 4))
             ecefX == float(unpack32s(SubSeq(line, 5, 8)))
             ecefY == float(unpack32s(SubSeq(line, 9, 12)))
             ecefZ == float(unpack32s(SubSeq(line, 13, 16)))
         IN  Returned([line |-> line,
                       rawTimestamp |-> rawTimestamp,
                       timestamp |-> timestampOf(timestampOffset(zone), rawTimestamp),
                       ecefX |-> ecefX, ecefY |-> ecefY, ecefZ |-> ecefZ,
                       lonLatEle |-> [ecef2Wgs84 |-> <<ecefX, ecefY, ecefZ>>]])

\* point.timestamp-curTrack[-1].timestamp < minTimeDiff
continues_Inclusive(point, last, d) ==
    ~WideLess(Wide(d), WideSub(point.timestamp, last.timestamp))

continues(point, last, d) ==
    WideLess(WideSub(point.timestamp, last.timestamp), Wide(d))

\* the loop of Track.split over the points rest
RECURSIVE splitLoop(_, _, _, _)
splitLoop(rest, tracks, curTrack, d) ==
    IF rest = <<>> THEN Append(tracks, curTrack)
    ELSE IF curTrack = <<>> THEN splitLoop(Tail(rest), tracks, <<Head(rest)>>, d)
    ELSE IF continues(Head(rest), curTrack[Len(curTrack)], d)
    THEN splitLoop(Tail(rest), tracks, Append(curTrack, Head(rest)), d)
    ELSE splitLoop(Tail(rest), Append(tracks, curTrack), <<Head(rest)>>, d)

split(pts, d) == splitLoop(pts, <<>>, <<>>, d)

(***************************************************************************)
(* The track point records a device can hold: 20 bytes, of which the last  *)
(* four are not read.  Single points are drawn over the whole 32-bit range,*)
(* tracks over moments a few seconds, an hour and a day apart.             *)
(***************************************************************************)
MaxTrackPoints == 4      \* most points of a track drawn

Int32Bytes ==
    { <<0, 0, 0, 0>>, <<100, 0, 0, 0>>, <<255, 255, 255, 255>>, <<156, 255, 255, 255>>,
      <<0, 0, 0, 128>>, <<255, 255, 255, 127>> }

TrackPointLines ==
    { t \o x \o y \o z \o <<0, 0, 0, 0>> :
        t \in Int32Bytes, x \in Int32Bytes, y \in Int32Bytes, z \in {<<0, 0, 0, 0>>, <<0, 0, 0, 128>>} }

TrackMoments == {0, 10, 3700, 3710, -86400}

TrackLines == { pack32(t) \o Zeros(16) : t \in TrackMoments }

TrackLineLists == UNION {[1..n -> TrackLines] : n \in 0..MaxTrackPoints}

Thresholds == {3600, 10}

InitTrack == InitPoi

\* TrackPoint(line)
TrackPoint_Init(line) ==
    /\ pc = "Idle"
    /\ binData' = line
    /\ result' = initData(line, tz)
    /\ pc' = "PointDecoded"
    /\ UNCHANGED <<points, poi, minTimeDiff, tz, gpxValues>>
    /\ UNCHANGED <<connVars, configVars>>

\* Track().fromLines(lines)
Track_FromLines(lines) ==
    /\ pc = "Idle"
    /\ points' = [i \in 1..Len(lines) |-> initData(lines[i], tz).value]
    /\ pc' = "TrackBuilt"
    /\ UNCHANGED <<result, binData, poi, minTimeDiff, tz, gpxValues>>
    /\ UNCHANGED <<connVars, configVars>>

\* track.split(d)
Track_Split(d) ==
    /\ pc = "TrackBuilt"
    /\ minTimeDiff' = d
    /\ result' = Returned(split(points, d))
    /\ pc' = "TrackSplit"
    /\ UNCHANGED <<points, binData, poi, tz, gpxValues>>
    /\ UNCHANGED <<connVars, configVars>>

NextTrack ==
    \/ \E line \in TrackPointLines : TrackPoint_Init(line)
    \/ \E lines \in TrackLineLists : Track_FromLines(lines)
    \/ \E d \in Thresholds : Track_Split(d)

SpecTrack == InitTrack /\ [][NextTrack]_vars

(***************************************************************************)
(* Claims about track points and tracks.                                   *)
(***************************************************************************)
\* w less the 32-bit number n
Earlier(w, n) ==
    LET lo == w.lo - (n % 65536)
    IN  [hi |-> w.hi - (n \div 65536) - (IF lo < 0 THEN 1 ELSE 0),
         lo |-> IF lo < 0 THEN lo + 65536 ELSE lo]

\* the 32-bit numbers a record can hold in the model
Int32s == {0, 100, -1, -100, -2147483647 - 1, 2147483647}

\* C29: decoding a 20-byte track point reads four little-endian signed 32-bit
\* integers, timestamp offset, X, Y and Z, and sets the timestamp to the
\* offset plus the fixed epoch constant T0, for every offset of the 32-bit
\* range, negative ones included; offset 100 gives T0 + 100.
C29_TrackPointDecode ==
    pc = "PointDecoded" =>
        /\ result.kind = "return"
        /\ \E t, x, y, z \in Int32s :
               /\ SubSeq(binData, 1, 16) = TwosComplement32(t) \o TwosComplement32(x)
                                            \o TwosComplement32(y) \o TwosComplement32(z)
               /\ result.value.rawTimestamp = t
               /\ result.value.ecefX.whole = x
               /\ result.value.ecefY.whole = y
               /\ result.value.ecefZ.whole = z
               /\ Earlier(result.value.timestamp, t)
                      = [hi |-> timestampOffset(tz) \div 65536, lo |-> timestampOffset(tz) % 65536]
        /\ result.value.rawTimestamp = 100
               => 65536 * result.value.timestamp.hi + result.value.timestamp.lo
                      = timestampOffset(tz) + 100

\* the most negative offset was decoded, with a negative coordinate
C29_Witness ==
    /\ pc = "PointDecoded"
    /\ result.kind = "return"
    /\ result.value.rawTimestamp = -2147483647 - 1
    /\ result.value.ecefX.whole = -100
    /\ result.value.timestamp.hi < timestampOffset(tz) \div 65536

\* the moments of the points of a track
Moments(track) == [i \in 1..Len(track) |-> track[i].rawTimestamp]

\* C30: splitting a track cuts it exactly between consecutive points whose
\* timestamps are the threshold or more apart: the resulting tracks put one
\* after the other are the original points in order, consecutive points of one
\* track are less than the threshold apart, and the last point of a track and
\* the first of the next are the threshold or more apart; [0, 10, 3700, 3710]
\* with threshold 3600 gives [0, 10] and [3700, 3710].
C30_SplitAtGaps ==
    pc = "TrackSplit" =>
        LET tracks == result.value
        IN  /\ join(tracks) = points
            /\ \A k \in 1..Len(tracks) : \A i \in 1..(Len(tracks[k]) - 1) :
                   tracks[k][i + 1].rawTimestamp - tracks[k][i].rawTimestamp < minTimeDiff
            /\ \A k \in 1..(Len(tracks) - 1) :
                   /\ tracks[k] # <<>>
                   /\ tracks[k + 1] # <<>>
                   /\ tracks[k + 1][1].rawTimestamp - tracks[k][Len(tracks[k])].rawTimestamp
                          >= minTimeDiff
            /\ (Moments(points) = <<0, 10, 3700, 3710>> /\ minTimeDiff = 3600)
                   => (/\ Len(tracks) = 2
                       /\ Moments(tracks[1]) = <<0, 10>>
                       /\ Moments(tracks[2]) = <<3700, 3710>>)

\* the track of four points was split in two
C30_Witness ==
    /\ pc = "TrackSplit"
    /\ Moments(points) = <<0, 10, 3700, 3710>>
    /\ minTimeDiff = 3600
    /\ Len(result.value) = 2

(***************************************************************************)
(* Claims about the tracks handed out by getTracks.                        *)
(***************************************************************************)
\* C31: every track returned by Track.split, and so by getTracks, holds a
\* non-empty list of points, for every sequence of points split, the empty
\* one of a device without track points included.
C31_TracksNonEmpty ==
    pc = "TrackSplit" =>
        \A k \in 1..Len(result.value) : result.value[k] # <<>>

(***************************************************************************)
(* DeviceConfig.  A Python value handed to a setter is an int, a bool, a   *)
(* str (its code points) or None; bool is a subclass of int, so True and   *)
(* False equal 1 and 0 in every membership test below.                     *)
(***************************************************************************)
\* a str keeps its code points in chars
PyStr(s) == [type |-> "str", v |-> 0, chars |-> s]
PyBool(b) == [type |-> "bool", v |-> IF b THEN 1 ELSE 0]
PyNone == [type |-> "NoneType", v |-> 0]

\* x in d for a dict or range d of ints
isIn(x, d) == x.type \in {"int", "bool"} /\ x.v \in d

\* str.lower() on ASCII
lower(s) == [i \in 1..Len(s) |-> IF s[i] \in 65..90 THEN s[i] + 32 ELSE s[i]]

\* str(n) of a non-negative int
RECURSIVE digits(_)
digits(n) == IF n < 10 THEN <<Digit(n)>> ELSE digits(n \div 10) \o <<Digit(n % 10)>>

\* str(x).encode("ascii"): "True" and "False" for a bool
str(x) ==
    IF x.type = "bool" THEN (IF x.v = 1 THEN <<84, 114, 117, 101>> ELSE <<70, 97, 108, 115, 101>>)
    ELSE IF x.type = "int" THEN (IF x.v < 0 THEN <<45>> \o digits(-x.v) ELSE digits(x.v))
    ELSE IF x.type = "str" THEN x.chars
    ELSE <<78, 111, 110, 101>>

\* int(x): whitespace around a numeral is ignored, one sign is allowed
int(x) ==
    IF x.type \in {"int", "bool"} THEN Returned(x.v)
    ELSE IF x.type # "str" THEN Raised("TypeError")
    ELSE LET t == strip(x.chars)
             signed == t # <<>> /\ t[1] \in {43, 45}
             ds == IF signed THEN Tail(t) ELSE t
         IN  IF ds = <<>> \/ \E i \in 1..Len(ds) : ds[i] \notin 48..57 THEN Raised("ValueError")
             ELSE Returned(IF signed /\ t[1] = 45 THEN -number(ds) ELSE number(ds))

\* the language of each code: en, fr, de, nl, it, es
languageDict ==
    (0 :> <<101, 110>>) @@ (1 :> <<102, 114>>) @@ (2 :> <<100, 101>>)
        @@ (3 :> <<110, 108>>) @@ (4 :> <<105, 116>>) @@ (5 :> <<101, 115>>)
\* the keys of the dicts of legal values
turnRadiusDict == {5, 10, 20, 30, 50}
lightDurationDict == {0, 10, 30, 60, 255}
autoOffDict == {0, 10, 30, 60}
\* range(-12, 13)
timezoneRange == -12..12

\* the setters up to "if send:": the snapshot with the value stored, or the
\* exception raised
set_lightDuration(dc, duration) ==
    IF isIn(duration, lightDurationDict) THEN Returned([dc EXCEPT !["lightDuration"] = duration])
    ELSE IF duration.type = "str" /\ lower(duration.chars) = <<111, 102, 102>>
    THEN Returned([dc EXCEPT !["lightDuration"] = PyInt(0)])
    ELSE IF duration.type = "str" /\ lower(duration.chars) = <<111, 110>>
    THEN Returned([dc EXCEPT !["lightDuration"] = PyInt(255)])
    ELSE Raised("UnsupportedValue")

set_turnRadius(dc, turnRadius) ==
    IF ~isIn(turnRadius, turnRadiusDict) THEN Raised("UnsupportedValue")
    ELSE Returned([dc EXCEPT !["turnRadius"] = turnRadius])

\* units.lower() is evaluated first: only a str has it
set_units(dc, units) ==
    IF units.type # "str" THEN Raised("AttributeError")
    ELSE IF lower(units.chars) \notin {<<107, 109>>, <<109, 105, 108, 101>>}
    THEN Raised("UnsupportedValue")
    ELSE Returned([dc EXCEPT !["units"] = PyInt(IF lower(units.chars) = <<107, 109>> THEN 0 ELSE 1)])

_set_timezone(dc, timezone, tzType) ==
    IF ~isIn(timezone, timezoneRange) THEN Raised("UnsupportedValue")
    ELSE IF tzType = "home" THEN Returned([dc EXCEPT !["homeTz"] = timezone])
    ELSE IF tzType = "current" THEN Returned([dc EXCEPT !["currentTz"] = timezone])
    ELSE Returned(dc)

set_homeTz(dc, timezone) == _set_timezone(dc, timezone, "home")
set_currentTz(dc, timezone) == _set_timezone(dc, timezone, "current")

set_language(dc, language) ==
    IF ~\E c \in DOMAIN languageDict : language.type = "str" /\ languageDict[c] = language.chars
    THEN Raised("UnsupportedValue")
    ELSE Returned([dc EXCEPT !["language"] =
                      PyInt(CHOOSE c \in DOMAIN languageDict : languageDict[c] = language.chars)])

set_autoOff(dc, autoOff) ==
    IF ~isIn(autoOff, autoOffDict) THEN Raised("UnsupportedValue")
    ELSE Returned([dc EXCEPT !["autoOff"] = autoOff])

\* set_timeInterval, set_distanceInterval, set_speedInterval: the same code
\* for the item named
set_interval(rc, item, interval) ==
    IF int(interval).kind # "return" THEN Raised("UnsupportedValue")
    ELSE Returned([rc EXCEPT ![item] = PyInt(int(interval).value)])

set_timeInterval(rc, interval) == set_interval(rc, "timeInterval", interval)
set_distanceInterval(rc, interval) == set_interval(rc, "distanceInterval", interval)
set_speedInterval(rc, interval) == set_interval(rc, "speedInterval", interval)

\* the setters of the general settings and those of the recording settings
DeviceSetters ==
    {"set_lightDuration", "set_turnRadius", "set_units", "set_homeTz", "set_currentTz",
     "set_language", "set_autoOff"}
RecordSetters == {"set_timeInterval", "set_distanceInterval", "set_speedInterval"}

\* getattr(p.config, configItem)(value, ...) up to "if send:"
setter(configItem, dc, rc, value) ==
    CASE configItem = "set_lightDuration" -> set_lightDuration(dc, value)
      [] configItem = "set_turnRadius" -> set_turnRadius(dc, value)
      [] configItem = "set_units" -> set_units(dc, value)
      [] configItem = "set_homeTz" -> set_homeTz(dc, value)
      [] configItem = "set_currentTz" -> set_currentTz(dc, value)
      [] configItem = "set_language" -> set_language(dc, value)
      [] configItem = "set_autoOff" -> set_autoOff(dc, value)
      [] configItem = "set_timeInterval" -> set_timeInterval(rc, value)
      [] configItem = "set_distanceInterval" -> set_distanceInterval(rc, value)
      [] configItem = "set_speedInterval" -> set_speedInterval(rc, value)

\* b",".join(parts)
RECURSIVE joinComma(_)
joinComma(parts) ==
    IF Len(parts) <= 1 THEN join(parts) ELSE Head(parts) \o <<44>> \o joinComma(Tail(parts))

\* variant: only the first three items are written
itemsOf_Some(config, items) == [k \in 1..3 |-> str(config[items[k]])]

\* str(config[item]).encode("ascii") for item in items
itemsOf(config, items) == [k \in 1..Len(items) |-> str(config[items[k]])]

\* the message of setDeviceConfig: "$POEM14,1" and the seven items
setDeviceConfig(dc) ==
    joinComma(<<<<36, 80, 79, 69, 77, 49, 52, 44, 49>>>> \o itemsOf(dc, deviceConfigItems))

\* the message of setRecordConfig: "$POEM02" and the seven items
setRecordConfig(rc) ==
    joinComma(<<<<36, 80, 79, 69, 77, 48, 50>>>> \o itemsOf(rc, recordConfigItems))

\* "$POEM200,14" and "$PMST200,02", the acknowledgments expected
Poem200_14 == <<36, 80, 79, 69, 77, 50, 48, 48, 44, 49, 52>>
Pmst200_02 == <<36, 80, 77, 83, 84, 50, 48, 48, 44, 48, 50>>

(***************************************************************************)
(* Setter calls on one DeviceConfig, as setConfig makes them, and the      *)
(* device's answers to the pushes.                                         *)
(***************************************************************************)
MaxCalls == 2      \* most setter calls made

\* the arguments tried with each setter, legal and illegal ones
Arguments(configItem) ==
    CASE configItem = "set_lightDuration" ->
             {PyInt(30), PyStr(<<79, 110>>)}                \* 30, "On"
      [] configItem = "set_turnRadius" -> {PyInt(20), PyStr(<<50, 48>>)}      \* 20, "20"
      [] configItem = "set_units" ->
             {PyStr(<<77, 105, 108, 101>>), PyStr(<<109>>), PyInt(1)}         \* "Mile", "m", 1
      [] configItem = "set_homeTz" -> {PyInt(-12), PyBool(TRUE)}   \* -12, True
      [] configItem = "set_currentTz" -> {PyInt(12), PyInt(-13)}              \* 12, -13
      [] configItem = "set_language" -> {PyStr(<<100, 101>>), PyStr(<<68, 69>>)} \* "de", "DE"
      [] configItem = "set_autoOff" -> {PyInt(60), PyNone}        \* 60, None
      [] configItem = "set_timeInterval" ->
             {PyInt(5), PyStr(<<32, 45, 49, 48>>), PyStr(<<49, 120>>)} \* 5, " -10", "1x"
      [] configItem = "set_distanceInterval" -> {PyInt(-3)}      \* -3
      [] configItem = "set_speedInterval" -> {PyBool(TRUE)}           \* True

\* what the device answers to a push; it may also stay silent
PushResponses ==
    { NmeaLine(Tail(Poem200_14), <<CR, LF>>),                   \* $POEM200,14*HH
      NmeaLine(Tail(Pmst200_02), <<CR, LF>>),                   \* $PMST200,02*HH
      Poem200_14 \o <<STAR, 48, 48, CR, LF>>,                   \* wrong checksum
      NmeaLine(<<80, 79, 69, 77, 50, 48, 49, 44, 49, 52>>, <<CR, LF>>) }  \* $POEM201,14*HH

InitConfig == Init

\* configItem(value, send=send) up to the end of sendCommand
DeviceConfig_set(configItem, value, send) ==
    /\ pc = "Idle"
    /\ Len(calls) < MaxCalls
    /\ calls' = Append(calls, [configItem |-> configItem, value |-> value, send |-> send])
    /\ LET out == setter(configItem, deviceConfig, recordConfig, value)
           stored == out.kind = "return"
           dc == IF stored /\ configItem \in DeviceSetters THEN out.value ELSE deviceConfig
           rc == IF stored /\ configItem \in RecordSetters THEN out.value ELSE recordConfig
           message == IF configItem \in DeviceSetters THEN setDeviceConfig(dc)
                      ELSE setRecordConfig(rc)
       IN  /\ deviceConfig' = dc
           /\ recordConfig' = rc
           /\ IF stored /\ send
              THEN /\ command' = message
                   /\ log' = Append(log, sendCommand(message))
                   /\ result' = None
                   /\ pc' = "AwaitAcknowledgment"
              ELSE /\ result' = IF stored THEN Returned(<<>>) ELSE out
                   /\ pc' = "Idle"
                   /\ UNCHANGED <<command, log>>
    /\ UNCHANGED <<baud, wire, dataChunks, checkChecksum, expectedResponse, sentLine, noise,
                   chunks, pointLen, pointLines, data, chunkNo>>
    /\ UNCHANGED codecVars

\* the device answers the push
DeviceAcknowledgment(line) ==
    /\ pc = "AwaitAcknowledgment"
    /\ wire = <<>>
    /\ wire' = line
    /\ UNCHANGED <<pc, baud, log, dataChunks, result, command, checkChecksum,
                   expectedResponse, sentLine, noise, chunks, pointLen, pointLines, data,
                   chunkNo>>
    /\ UNCHANGED <<codecVars, configVars>>

\* self.con.getResponse(expectedResponse=...) of setDeviceConfig / setRecordConfig
DeviceConfig_getResponse ==
    /\ pc = "AwaitAcknowledgment"
    /\ LET expected == IF calls[Len(calls)].configItem \in DeviceSetters
                       THEN Poem200_14 ELSE Pmst200_02
           out == getResponse(readline(wire), TRUE, expected)
       IN  /\ checkChecksum' = TRUE
           /\ expectedResponse' = expected
           /\ result' = IF out.kind = "return" THEN Returned(<<>>) ELSE out
    /\ log' = Append(log, [op |-> "readline", data |-> readline(wire)])
    /\ wire' = afterReadline(wire)
    /\ pc' = "Idle"
    /\ UNCHANGED <<baud, dataChunks, command, sentLine, noise, chunks, pointLen, pointLines,
                   data, chunkNo>>
    /\ UNCHANGED <<codecVars, configVars>>

NextConfig ==
    \/ \E configItem \in DeviceSetters \cup RecordSetters :
           \E value \in Arguments(configItem), send \in BOOLEAN :
               DeviceConfig_set(configItem, value, send)
    \/ \E line \in PushResponses : DeviceAcknowledgment(line)
    \/ DeviceConfig_getResponse

SpecConfig == InitConfig /\ [][NextConfig]_vars

(***************************************************************************)
(* Claims about the settings (SpecConfig).                                 *)
(***************************************************************************)
\* the setter call made by the step at hand
NewCall == calls'[Len(calls')]

\* the values each setter documents as legal: the keys of its dict (or the
\* range, the language names, "on"/"off", "km"/"mile" in any letter case),
\* and for the three intervals whatever int() takes
IsLegal(configItem, value) ==
    LET text == IF value.type = "str" THEN lower(value.chars) ELSE <<0>>
        num == value.type \in {"int", "bool"}
    IN  CASE configItem = "set_lightDuration" ->
                 \/ num /\ value.v \in {0, 10, 30, 60, 255}
                 \/ text \in {<<111, 110>>, <<111, 102, 102>>}
          [] configItem = "set_turnRadius" -> num /\ value.v \in {5, 10, 20, 30, 50}
          [] configItem = "set_units" -> text \in {<<107, 109>>, <<109, 105, 108, 101>>}
          [] configItem \in {"set_homeTz", "set_currentTz"} -> num /\ value.v \in -12..12
          [] configItem = "set_language" ->
                 /\ value.type = "str"
                 /\ value.chars \in {<<101, 110>>, <<102, 114>>, <<100, 101>>, <<110, 108>>,
                                     <<105, 116>>, <<101, 115>>}
          [] configItem = "set_autoOff" -> num /\ value.v \in {0, 10, 30, 60}
          [] configItem \in RecordSetters -> int(value).kind = "return"

\* C32: a setter called with a value outside its legal set (for the three
\* recording intervals: a value int() does not take) raises UnsupportedValue,
\* leaves deviceConfig and recordConfig as they were and writes nothing to
\* the device.
C32_IllegalValueRejected ==
    [][(calls' # calls /\ ~IsLegal(NewCall.configItem, NewCall.value)) =>
           /\ result'.kind = "UnsupportedValue"
           /\ deviceConfig' = deviceConfig
           /\ recordConfig' = recordConfig
           /\ log' = log
           /\ pc' = "Idle"]_vars

\* the last setter call stored its value and pushed the snapshot
Pushing ==
    /\ calls # <<>>
    /\ calls[Len(calls)].send
    /\ result.kind \notin {"UnsupportedValue", "AttributeError"}

\* the fields of a snapshot in the order of items, each preceded by a comma
RECURSIVE Fields(_, _)
Fields(config, items) ==
    IF items = <<>> THEN <<>>
    ELSE <<44>> \o str(config[Head(items)]) \o Fields(config, Tail(items))

\* the set command of the snapshot the setter named belongs to, as written
SetCommandOf(dc, rc, configItem) ==
    LET body == IF configItem \in DeviceSetters
                THEN <<80, 79, 69, 77, 49, 52, 44, 49>> \o Fields(dc, deviceConfigItems)
                ELSE <<80, 79, 69, 77, 48, 50>> \o Fields(rc, recordConfigItems)
    IN  [op |-> "write", data |-> <<DOLLAR>> \o body \o <<STAR>> \o XorHex(body) \o <<CR, LF>>]

SetCommand(configItem) == SetCommandOf(deviceConfig, recordConfig, configItem)

\* the acknowledgment line of the push the setter named makes
IsAcknowledgment(configItem, line) ==
    /\ startswith(line, IF configItem \in DeviceSetters THEN Poem200_14 ELSE Pmst200_02)
    /\ ChecksumHolds(line)

\* C33: a push writes one command holding every field of its snapshot in the
\* fixed order with the checksum, then reads one line: the push succeeds when
\* the line is the acknowledgment and fails with BadResponse (BadChecksum
\* being one) for any other answer, none included.
C33_PushWholeSnapshot ==
    Pushing =>
        LET configItem == calls[Len(calls)].configItem
        IN  IF pc = "AwaitAcknowledgment"
            THEN log[Len(log)] = SetCommand(configItem)
            ELSE /\ log[Len(log) - 1] = SetCommand(configItem)
                 /\ log[Len(log)].op = "readline"
                 /\ IF IsAcknowledgment(configItem, log[Len(log)].data)
                    THEN result.kind = "return"
                    ELSE result.kind \in {"BadResponse", "BadChecksum"}

\* every call so far took a legal value
AllLegal(cs) == \A i \in 1..Len(cs) : IsLegal(cs[i].configItem, cs[i].value)

\* only the last of the calls made asked for the push
OnlyLastSends(cs) == cs # <<>> /\ \A i \in 1..Len(cs) : cs[i].send <=> i = Len(cs)

\* the snapshots hold the value call c set: setting it again changes nothing
Holds(dc, rc, c) ==
    setter(c.configItem, dc, rc, c.value).value
        = IF c.configItem \in DeviceSetters THEN dc ELSE rc

\* the command written by this step is the set command of the snapshot of
\* call i after this step, and that snapshot holds the value of call i unless
\* a later call set the same item
Carries(i) ==
    /\ log'[Len(log')] = SetCommandOf(deviceConfig', recordConfig', calls'[i].configItem)
    /\ (\A j \in (i + 1)..Len(calls') : calls'[j].configItem # calls'[i].configItem)
           => Holds(deviceConfig', recordConfig', calls'[i])

\* a call with send=False changes nothing but its own snapshot and touches
\* neither the log nor the wire
SilentSetter ==
    (calls' # calls /\ ~NewCall.send) =>
        /\ log' = log
        /\ wire' = wire
        /\ pc' = "Idle"
        /\ NewCall.configItem \in DeviceSetters => recordConfig' = recordConfig
        /\ NewCall.configItem \in RecordSetters => deviceConfig' = deviceConfig

\* C34 as stated: a setter called with send=False changes only the snapshot
\* and does no channel I/O; after k legal setter calls of which only the last
\* has send=True exactly one set command is written, and it carries the values
\* of all k changes.
C34_BatchedPush ==
    [][/\ SilentSetter
       /\ (calls' # calls /\ AllLegal(calls') /\ OnlyLastSends(calls')) =>
              /\ Len(log') = 1
              /\ \A i \in 1..Len(calls') : Carries(i)]_vars

\* the calls are all on the general settings or all on the recording settings
OneSnapshot(cs) ==
    \/ \A i \in 1..Len(cs) : cs[i].configItem \in DeviceSetters
    \/ \A i \in 1..Len(cs) : cs[i].configItem \in RecordSetters

\* C34, amended: the same for k legal calls of setters of one snapshot.
C34_BatchedPushOneSnapshot ==
    [][/\ SilentSetter
       /\ (calls' # calls /\ AllLegal(calls') /\ OnlyLastSends(calls') /\ OneSnapshot(calls')) =>
              /\ Len(log') = 1
              /\ \A i \in 1..Len(calls') : Carries(i)]_vars

\* two legal calls changed two general settings, the second pushed them
C34_Witness ==
    /\ pc = "AwaitAcknowledgment"
    /\ Len(calls) = 2
    /\ AllLegal(calls)
    /\ OnlyLastSends(calls)
    /\ calls[1].configItem = "set_language"
    /\ calls[2].configItem = "set_lightDuration"
    /\ deviceConfig["language"] = PyInt(2)
    /\ deviceConfig["lightDuration"] = PyInt(255)
    /\ Len(log) = 1

(***************************************************************************)
(* Claims about sendData's initiation, resends and completion (SpecSend).  *)
(***************************************************************************)
\* sendData was called with checkChecksum=False and has read the response
UncheckedResponseRead ==
    /\ command \in SendMessages
    /\ ~checkChecksum
    /\ Len(log) >= 2
    /\ log[2].op = "readline"

\* C35: with checksum validation off, as sendPois and sendRoute call it,
\* sendData still wants the response to start with "$POEM200,12": any other
\* response, none included, raises BadResponse and nothing more is written,
\* no break, no baud change, no chunk frame, no end byte; a response with
\* the prefix is accepted whatever its checksum, and sendData goes on.
C35_PrefixWithoutChecksum ==
    UncheckedResponseRead =>
        IF startswith(log[2].data, Poem200_12)
        THEN /\ result.kind \notin {"BadResponse", "BadChecksum"}
             /\ Len(log) = 2 => pc = "Initiated"
        ELSE /\ result.kind = "BadResponse"
             /\ pc = "Idle"
             /\ log = <<sendCommand(command), [op |-> "readline", data |-> log[2].data]>>

\* the response $POEM200,12*00 with its wrong checksum was accepted and the
\* first chunk frame written
C35_Witness ==
    /\ UncheckedResponseRead
    /\ log[2].data = Poem200_12 \o <<STAR, 48, 48, CR, LF>>
    /\ ~ChecksumHolds(log[2].data)
    /\ baud = HighBaudrate
    /\ FrameWrites(log) # {}

(***************************************************************************)
(* sendData against a device that does not refuse a frame for ever: it     *)
(* answers 0x15 only while fewer than MaxFrameWrites frames were written.  *)
(* The engine is one thread and every wait of it comes back within its    *)
(* timeout, so each step that follows a wait is taken once it is due.      *)
(***************************************************************************)
DeviceAcknowledgeInTheEnd(reply) ==
    /\ DeviceAcknowledge(reply)
    /\ (pc = "AwaitAck" /\ Cardinality(FrameWrites(log)) >= MaxFrameWrites)
           => waitForAcknowledge(reply).outcome # Returned(FALSE)

NextSendLive ==
    \/ \E initMessage \in SendMessages, d \in SendPayloads, cc \in BOOLEAN :
           SendData(initMessage, d, cc)
    \/ \E line \in InitResponses : DeviceAnswer(line)
    \/ SendData_getResponse
    \/ SendData_setBaudrate
    \/ \E reply \in AckReplies : DeviceAcknowledgeInTheEnd(reply)
    \/ SendData_initialAcknowledge
    \/ SendData_waitForAcknowledge
    \/ SendData_endOfTransfer

SpecSendLive ==
    /\ Init
    /\ [][NextSendLive]_vars
    /\ WF_vars(SendData_initialAcknowledge)
    /\ WF_vars(SendData_waitForAcknowledge)
    /\ WF_vars(SendData_endOfTransfer)

IsRead(e) == e.op = "read"
IsDataWrite(e) == e.op = "write" /\ e.data # <<>> /\ e.data[1] \in {STX, EOT}

\* s without the elements that repeat their predecessor
RECURSIVE Once(_)
Once(s) ==
    IF Len(s) <= 1 THEN s
    ELSE IF s[Len(s)] = s[Len(s) - 1] THEN Once(SubSeq(s, 1, Len(s) - 1))
    ELSE Append(Once(SubSeq(s, 1, Len(s) - 1)), s[Len(s)])

\* sendData has returned: every frame was written, once or several times in
\* a row, in ascending order, then one 0x04
Completed ==
    /\ pc = "Idle"
    /\ result = Returned(<<>>)
    /\ LET written == SelectSeq(log, IsDataWrite)
       IN  /\ Once([i \in 1..(Len(written) - 1) |-> written[i].data]) = dataChunks
           /\ written[Len(written)] = EotWrite
           /\ Cardinality({i \in 1..Len(log) : log[i] = EotWrite}) = 1

\* sendData has failed on a wait the device let time out, or on a 0x04 it
\* answered with 0x15
DeviceGaveUp ==
    /\ pc = "Idle"
    /\ LET reads == SelectSeq(log, IsRead)
       IN  \/ result.kind = "TypeError" /\ reads[Len(reads)] = TimedOutRead
           \/ /\ result.kind = "Error"
              /\ reads[Len(reads)] = NakRead
              /\ log[Len(log) - Len(SelectSeq(SubSeq(log, WriteBefore(Len(log)) + 1, Len(log)), IsRead))]
                     = EotWrite

\* a step that reads 0x15 for a frame writes that frame again, however often
\* it was written before
ResendOnNak ==
    (pc = "AwaitAck" /\ log' # log) =>
        LET new == SubSeq(log', Len(log) + 1, Len(log'))
            reads == SelectSeq(new, IsRead)
        IN  (reads # <<>> /\ reads[Len(reads)] = NakRead) =>
                /\ pc' = "AwaitAck"
                /\ chunkNo' = chunkNo
                /\ new[Len(new)] = [op |-> "write", data |-> dataChunks[chunkNo]]

\* C36: once the transfer is initiated, sendData completes, every frame
\* written at least once in ascending order and then one 0x04, unless the
\* device lets a wait time out or refuses the 0x04; a frame answered with 0x15
\* is written again each time, with no limit on the number of resends.
C36_CompletesWhenAcknowledged ==
    /\ [][ResendOnNak]_vars
    /\ (pc = "AwaitInitial") ~> (Completed \/ DeviceGaveUp)

\* a transfer of two chunks completed after a frame was refused twice
C36_Witness ==
    /\ Completed
    /\ Len(dataChunks) = 2
    /\ Cardinality(FrameWrites(log)) = MaxFrameWrites
    /\ Cardinality({i \in 1..Len(log) : log[i] = NakRead}) >= 1

(***************************************************************************)
(* Claims about getData on a device that has stopped sending (Spec).       *)
(***************************************************************************)
\* the device has sent nothing since the continuation byte
DeviceSilent ==
    /\ command \in GetMessages
    /\ sendRawCommand(<<ContinueByte>>) \in {log[i] : i \in 1..Len(log)}
    /\ \A i \in ReadsOf(log) : log[i].data = <<>>

\* C37: on a device that sends neither a chunk nor the end marker after the
\* continuation byte getData waits a bounded number of times and then fails
\* or returns: it is not still in its loop after MaxReads reads that found
\* nothing.
C37_HungDeviceEnds ==
    (pc = "Receiving" /\ DeviceSilent) => Cardinality(ReadsOf(log)) < MaxReads

(***************************************************************************)
(* Claims about what parseChunks drops (SpecParse).                        *)
(***************************************************************************)
NotOnlyPadding(l) == ~OnlyPadding(l)

\* C38: parseChunks drops nothing but padding: the records it returns, put
\* one after the other, are the chunk payloads put one after the other with
\* the slices of pointLen bytes made of 0xFF only left out, also when such a
\* slice is followed by other slices in its chunk or begins a record that
\* goes on in the next chunk.
C38_OnlyPaddingDropped ==
    pc = "Parsed" =>
        join(pointLines) = join(SelectSeq(Slices(join(chunks), pointLen), NotOnlyPadding))

(***************************************************************************)
(* Claims about the errors of getResponse (SpecChannel).                   *)
(***************************************************************************)
CheckedResponseRead ==
    /\ pc = "Idle"
    /\ log # <<>>
    /\ log[Len(log)].op = "readline"
    /\ checkChecksum

\* C39: getResponse with the checksum validation on returns the line or
\* fails with BadResponse or BadChecksum, whatever line was read, a line of
\* fewer than three bytes after stripping and the empty line of a timed-out
\* read included.
C39_OnlyBadResponseFamily ==
    CheckedResponseRead => result.kind \in {"return", "BadResponse", "BadChecksum"}

(***************************************************************************)
(* Claims about the baud rate across operations (SpecSend).                *)
(***************************************************************************)
TextCommandSent == pc = "AwaitResponse" /\ log = <<sendCommand(command)>>

ResponseLineRead == log # <<>> /\ log[Len(log)].op = "readline"

InBulkTransfer ==
    /\ pc \in {"AwaitInitial", "AwaitAck", "AwaitEot"}
    /\ \E i \in 1..Len(log) : log[i] = BaudChange(HighBaudrate)

\* C40: after any sequence of operations on one connection, failed ones
\* included, the baud rate is 9600 when a checksummed text command is sent
\* and when a response line is read, and it is 115200 only between the baud
\* switch of a bulk transfer and the end of that transfer.
C40_TextAtInitialBaudrate ==
    /\ (TextCommandSent \/ ResponseLineRead) => baud = InitialBaudrate
    /\ baud = HighBaudrate => InBulkTransfer

====
